---- MODULE Spec2Model ----
(***************************************************************************)
(* Telegram <-> Bale bridge (src/app.py): the SQLite store, the            *)
(* verification-token protocol, the account merge and the handlers that    *)
(* drive them.                                                             *)
(*                                                                         *)
(* Not modelled: titles, created_at columns, row ids of chats and links    *)
(* (presentation only), message bodies and keyboards.  NULL is 0: SQLite   *)
(* ids start at 1 and the platform ids of the model are positive.          *)
(* Verification codes are random strings (gen_code, uuid4); the model      *)
(* draws the next unused code, so a primary-key collision of two random    *)
(* codes is not modelled.                                                  *)
(***************************************************************************)
EXTENDS Integers, Sequences, FiniteSets, TLC

\* ------------------------------------------------------------------ bounds
MaxUsers == 2
MaxCodes == 1
MaxDmCodes == 1
MaxTasks == 2
MaxPairCodes == 2
MaxPairUsers == 1
MaxRaceMerges == 3
MaxOwnerMerges == 1
MaxRouteUsers == 1
MaxUpdates == 3
MaxReconnects == 2
MaxMergeCodes == 2

\* timedelta(minutes=10), in seconds
TTL_MINUTES == 10
TTL == TTL_MINUTES * 60

NULL == 0
None == <<>>

TG_USERS == 1 .. MaxUsers
BALE_USERS == 1 .. MaxUsers
\* Chat ids of the environment, the same on both platforms: a private chat
\* has its user's id, 11 is a group, 12 a channel.
GROUPS == {11}
CHANNELS == {12}
\* The groups of the scenarios with more than one group on a platform.
PAIR_GROUPS == GROUPS \cup {13}
CHAT_IDS == GROUPS \cup CHANNELS
KINDS == {"group", "channel"}

VARIABLES
  users,             \* table users: rows [id, tg_user_id, bale_user_id, dm_target_bale_chat_id, dm_target_telegram_chat_id]
  seq,               \* sqlite_sequence of users (AUTOINCREMENT): the largest id ever given
  chats,             \* table chats: rows [owner_user_id, platform, chat_type, chat_id]
  group_links,       \* table group_links: rows [owner_user_id, tg, bale, enabled]
  channel_links,     \* table channel_links
  verify_tokens,     \* table verify_tokens
  dm_verify_tokens,  \* table dm_verify_tokens
  TG_WIZ,            \* in-memory wizard map of the Telegram loop: user id -> mode
  BALE_WIZ,          \* in-memory wizard map of the Bale loop: user id -> [mode, tg_id]
  now,               \* datetime.now(timezone.utc), in seconds
  issued_at,         \* history: code -> time create_verify_code ran
  redeemed,          \* history: code -> number of consume_verify_code calls that returned (owner, kind)
  tasks,             \* Telegram handler tasks in flight (aiogram runs each update as a task)
  last               \* the last handler run: its input, the values it computed, its reply

vars == <<users, seq, chats, group_links, channel_links, verify_tokens,
          dm_verify_tokens, TG_WIZ, BALE_WIZ, now, issued_at, redeemed, tasks, last>>

\* The database as one value, as a connection sees it.
DB == [users |-> users, seq |-> seq, chats |-> chats, group_links |-> group_links,
       channel_links |-> channel_links, verify_tokens |-> verify_tokens,
       dm_verify_tokens |-> dm_verify_tokens]

\* db.commit(): the connection's view becomes the database.
Commit(d) ==
  /\ users' = d.users
  /\ seq' = d.seq
  /\ chats' = d.chats
  /\ group_links' = d.group_links
  /\ channel_links' = d.channel_links
  /\ verify_tokens' = d.verify_tokens
  /\ dm_verify_tokens' = d.dm_verify_tokens

EmptyDB == [users |-> {}, seq |-> 0, chats |-> {}, group_links |-> {},
            channel_links |-> {}, verify_tokens |-> {}, dm_verify_tokens |-> {}]

\* ------------------------------------------------------------ constraints
\* Mutant: the users table without its unique indexes.
idx_users_off(us) == TRUE

\* CREATE UNIQUE INDEX idx_users_tg / idx_users_bale: no two rows share a
\* non-NULL tg_user_id, nor a non-NULL bale_user_id.
idx_users_ok(us) ==
  \A u1, u2 \in us :
    u1 # u2 =>
      /\ u1.id # u2.id
      /\ (u1.tg_user_id # NULL => u1.tg_user_id # u2.tg_user_id)
      /\ (u1.bale_user_id # NULL => u1.bale_user_id # u2.bale_user_id)

\* ---------------------------------------------------------- user management
UserByTg(d, tg_user_id) == {u \in d.users : u.tg_user_id = tg_user_id}
UserByBale(d, bale_user_id) == {u \in d.users : u.bale_user_id = bale_user_id}
IdOf(rows) == IF rows = {} THEN NULL ELSE (CHOOSE u \in rows : TRUE).id

NewUser(id, tg, bale) ==
  [id |-> id, tg_user_id |-> tg, bale_user_id |-> bale,
   dm_target_bale_chat_id |-> NULL, dm_target_telegram_chat_id |-> NULL]

\* get_or_create_user_by_tg: SELECT, else INSERT (tg_user_id only) + commit
\* and look the row up again.  Returns [db, id].
get_or_create_user_by_tg(d, tg_user_id) ==
  IF UserByTg(d, tg_user_id) # {}
  THEN [db |-> d, id |-> IdOf(UserByTg(d, tg_user_id))]
  ELSE [db |-> [d EXCEPT !.users = @ \cup {NewUser(d.seq + 1, tg_user_id, NULL)},
                         !.seq = @ + 1],
        id |-> d.seq + 1]

get_or_create_user_by_bale(d, bale_user_id) ==
  IF UserByBale(d, bale_user_id) # {}
  THEN [db |-> d, id |-> IdOf(UserByBale(d, bale_user_id))]
  ELSE [db |-> [d EXCEPT !.users = @ \cup {NewUser(d.seq + 1, NULL, bale_user_id)},
                         !.seq = @ + 1],
        id |-> d.seq + 1]

\* ------------------------------------------------------ verify code management
\* gen_code: a code no row of the table has yet.
gen_code(tokens) == Cardinality(tokens) + 1

\* create_verify_code: INSERT INTO verify_tokens (consumed defaults to 0),
\* expires_at = now + 10 minutes; commit.  Returns [db, code].
create_verify_code(d, owner_user_id, platform, chat_type, platform_user_id, t) ==
  LET code == gen_code(d.verify_tokens)
      row == [code |-> code, owner_user_id |-> owner_user_id, platform |-> platform,
              chat_type |-> chat_type, platform_user_id |-> platform_user_id,
              expires_at |-> t + TTL, consumed |-> FALSE]
  IN [db |-> [d EXCEPT !.verify_tokens = @ \cup {row}], code |-> code]

\* Mutant: the lookup leaves the requester out of the WHERE clause.
select_verify_token_any_user(d, code, platform, platform_user_id) ==
  {r \in d.verify_tokens : r.code = code /\ r.platform = platform}

\* SELECT ... FROM verify_tokens WHERE code=? AND platform=? AND platform_user_id=?
select_verify_token(d, code, platform, platform_user_id) ==
  {r \in d.verify_tokens :
     r.code = code /\ r.platform = platform /\ r.platform_user_id = platform_user_id}

\* Mutant: the comparison the wrong way round.
is_expired_reversed(expires_at, t) == expires_at > t

\* datetime.fromisoformat(expires_at) < datetime.now(timezone.utc)
is_expired(expires_at, t) == expires_at < t

\* The checks of consume_verify_code between its SELECT and its UPDATE:
\* TRUE when the call goes on to the UPDATE.
verify_row_ok(rows, t) ==
  /\ rows # {}
  /\ LET row == CHOOSE r \in rows : TRUE
     IN ~row.consumed /\ ~is_expired(row.expires_at, t)

\* Mutant: the UPDATE is lost.
mark_consumed_lost(d, code) == d

\* UPDATE verify_tokens SET consumed=1 WHERE code=?
mark_consumed(d, code) ==
  [d EXCEPT !.verify_tokens =
     {IF r.code = code THEN [r EXCEPT !.consumed = TRUE] ELSE r : r \in @}]

\* consume_verify_code run without interruption.  Returns [db, ret]: ret is
\* <<owner_user_id, chat_type>> or None.
consume_verify_code(d, code, platform, platform_user_id, t) ==
  LET rows == select_verify_token(d, code, platform, platform_user_id)
  IN IF verify_row_ok(rows, t)
     THEN LET row == CHOOSE r \in rows : TRUE
          IN [db |-> mark_consumed(d, code),
              ret |-> <<row.owner_user_id, row.chat_type>>]
     ELSE [db |-> d, ret |-> None]

\* create_dm_verify_code: same shape, bound to a target chat id.
create_dm_verify_code(d, owner_user_id, target_platform, target_chat_id, t) ==
  LET code == gen_code(d.dm_verify_tokens)
      row == [code |-> code, owner_user_id |-> owner_user_id,
              target_platform |-> target_platform, target_chat_id |-> target_chat_id,
              expires_at |-> t + TTL, consumed |-> FALSE]
  IN [db |-> [d EXCEPT !.dm_verify_tokens = @ \cup {row}], code |-> code]

\* SELECT ... FROM dm_verify_tokens WHERE code=?
select_dm_verify_token(d, code) == {r \in d.dm_verify_tokens : r.code = code}

\* The checks of consume_dm_verify_code between its SELECT and its UPDATE.
dm_row_ok(rows, platform, chat_id, t) ==
  /\ rows # {}
  /\ LET row == CHOOSE r \in rows : TRUE
     IN /\ ~(row.consumed \/ row.target_platform # platform \/ row.target_chat_id # chat_id)
        /\ ~is_expired(row.expires_at, t)

\* UPDATE dm_verify_tokens SET consumed=1 WHERE code=?
mark_dm_consumed(d, code) ==
  [d EXCEPT !.dm_verify_tokens =
     {IF r.code = code THEN [r EXCEPT !.consumed = TRUE] ELSE r : r \in @}]

\* consume_dm_verify_code run without interruption.  Returns [db, ret]: ret
\* is the owner_user_id, or NULL for None.
consume_dm_verify_code(d, code, platform, chat_id, t) ==
  LET rows == select_dm_verify_token(d, code)
  IN IF dm_row_ok(rows, platform, chat_id, t)
     THEN [db |-> mark_dm_consumed(d, code),
           ret |-> (CHOOSE r \in rows : TRUE).owner_user_id]
     ELSE [db |-> d, ret |-> NULL]

\* UPDATE users SET dm_target_bale_chat_id=? WHERE id=?
set_dm_target_bale(d, id, chat_id) ==
  [d EXCEPT !.users =
     {IF u.id = id THEN [u EXCEPT !.dm_target_bale_chat_id = chat_id] ELSE u : u \in @}]

\* UPDATE users SET dm_target_telegram_chat_id=? WHERE id=?
set_dm_target_telegram(d, id, chat_id) ==
  [d EXCEPT !.users =
     {IF u.id = id THEN [u EXCEPT !.dm_target_telegram_chat_id = chat_id] ELSE u : u \in @}]

\* ------------------------------------------------------------ chat registry
\* Mutant: INSERT OR REPLACE, the new row takes the place of the old one.
register_chat_replace(d, owner_user_id, platform, chat_type, chat_id) ==
  [d EXCEPT !.chats =
     {c \in @ : ~(c.platform = platform /\ c.chat_id = chat_id)}
       \cup {[owner_user_id |-> owner_user_id, platform |-> platform,
               chat_type |-> chat_type, chat_id |-> chat_id]}]

\* register_chat: INSERT OR IGNORE under UNIQUE(platform, chat_id).
register_chat(d, owner_user_id, platform, chat_type, chat_id) ==
  IF \E c \in d.chats : c.platform = platform /\ c.chat_id = chat_id
  THEN d
  ELSE [d EXCEPT !.chats = @ \cup {[owner_user_id |-> owner_user_id,
                                     platform |-> platform,
                                     chat_type |-> chat_type,
                                     chat_id |-> chat_id]}]

\* Mutant: the validation leaves the owner out of the WHERE clause.
chat_owned_any_owner(d, owner_user_id, platform, chat_type, chat_id) ==
  \E c \in d.chats :
    c.platform = platform /\ c.chat_type = chat_type /\ c.chat_id = chat_id

\* Mutant: the validation leaves the chat type out of the WHERE clause.
chat_owned_any_kind(d, owner_user_id, platform, chat_type, chat_id) ==
  \E c \in d.chats :
    c.owner_user_id = owner_user_id /\ c.platform = platform /\ c.chat_id = chat_id

\* SELECT 1 FROM chats WHERE owner_user_id=? AND platform=? AND chat_type=?
\* AND chat_id=?
chat_owned(d, owner_user_id, platform, chat_type, chat_id) ==
  \E c \in d.chats :
    /\ c.owner_user_id = owner_user_id /\ c.platform = platform
    /\ c.chat_type = chat_type /\ c.chat_id = chat_id

\* pair_groups: INSERT INTO group_links (enabled = 1) + commit; the INSERT
\* raises under UNIQUE(tg_group_id, bale_group_id).  Rows are never deleted,
\* so the AUTOINCREMENT id is the number of rows plus one.
\* Returns [db, raised].
pair_groups(d, owner_user_id, tg_group_id, bale_group_id) ==
  IF \E l \in d.group_links : l.tg_group_id = tg_group_id /\ l.bale_group_id = bale_group_id
  THEN [db |-> d, raised |-> TRUE]
  ELSE [db |-> [d EXCEPT !.group_links = @ \cup
                  {[id |-> Cardinality(d.group_links) + 1,
                    owner_user_id |-> owner_user_id, tg_group_id |-> tg_group_id,
                    bale_group_id |-> bale_group_id, enabled |-> TRUE]}],
        raised |-> FALSE]

\* pair_channels: the same on channel_links.
pair_channels(d, owner_user_id, tg_channel_id, bale_channel_id) ==
  IF \E l \in d.channel_links :
       l.tg_channel_id = tg_channel_id /\ l.bale_channel_id = bale_channel_id
  THEN [db |-> d, raised |-> TRUE]
  ELSE [db |-> [d EXCEPT !.channel_links = @ \cup
                  {[id |-> Cardinality(d.channel_links) + 1,
                    owner_user_id |-> owner_user_id, tg_channel_id |-> tg_channel_id,
                    bale_channel_id |-> bale_channel_id, enabled |-> TRUE]}],
        raised |-> FALSE]

\* fetchone() of a lookup by an indexed column: the row with the least rowid,
\* as a set of at most one row ({} for None).
first_row(rows) == {r \in rows : \A q \in rows : r.id <= q.id}

\* find_group_link_by_tg / find_group_link_by_bale
find_group_link_by_tg(d, tg_group_id) ==
  first_row({l \in d.group_links : l.tg_group_id = tg_group_id})
find_group_link_by_bale(d, bale_group_id) ==
  first_row({l \in d.group_links : l.bale_group_id = bale_group_id})

\* find_channel_link_by_tg / find_channel_link_by_bale
find_channel_link_by_tg(d, tg_channel_id) ==
  first_row({l \in d.channel_links : l.tg_channel_id = tg_channel_id})
find_channel_link_by_bale(d, bale_channel_id) ==
  first_row({l \in d.channel_links : l.bale_channel_id = bale_channel_id})

\* ------------------------------------------------------------- account merge
\* UPDATE <table> SET owner_user_id=to WHERE owner_user_id=from
reparent(rows, from, to) ==
  {IF r.owner_user_id = from THEN [r EXCEPT !.owner_user_id = to] ELSE r : r \in rows}

\* Step 1 of the merge case: chats, group_links, channel_links, verify_tokens
\* and dm_verify_tokens of the Telegram record go to the Bale record.
reparent_all(d, from, to) ==
  [d EXCEPT !.chats = reparent(@, from, to),
            !.group_links = reparent(@, from, to),
            !.channel_links = reparent(@, from, to),
            !.verify_tokens = reparent(@, from, to),
            !.dm_verify_tokens = reparent(@, from, to)]

\* UPDATE users SET tg_user_id=? WHERE id=?
set_tg_user_id(us, id, tg_user_id) ==
  {IF u.id = id THEN [u EXCEPT !.tg_user_id = tg_user_id] ELSE u : u \in us}

\* Mutant: the UPDATE writes the Telegram column.
set_bale_user_id_wrong_column(us, id, bale_user_id) ==
  {IF u.id = id THEN [u EXCEPT !.tg_user_id = bale_user_id] ELSE u : u \in us}

\* UPDATE users SET bale_user_id=? WHERE id=?
set_bale_user_id(us, id, bale_user_id) ==
  {IF u.id = id THEN [u EXCEPT !.bale_user_id = bale_user_id] ELSE u : u \in us}

\* DELETE FROM users WHERE id=?  (PRAGMA foreign_keys is never set, so no
\* ON DELETE CASCADE runs.)
delete_user(us, id) == {u \in us : u.id # id}

\* Mutant: what the connection wrote before the error is kept.
Rollback_keeps(snapshot, written) == written

\* except Exception: await db.rollback(); raise -- the database is what it
\* was at BEGIN, whatever the connection had written.
Rollback(snapshot, written) == snapshot

\* merge_user_accounts after its two SELECTs returned tg_owner_id and
\* bale_owner_id.  Each UPDATE of users is checked against the unique
\* indexes when it runs (SQLite checks a UNIQUE index per statement); a
\* violation raises, and the except branch rolls back and re-raises.  In the
\* fallback the SELECT of get_or_create_user_by_tg reads the snapshot the
\* first SELECT read (no row), and its INSERT raises if a row has the
\* Telegram id by now.
\* Returns [db, ret, raised, tg_owner_id, bale_owner_id].
merge_apply(d, tg_user_id, bale_user_id, tg_owner_id, bale_owner_id) ==
  LET Out(db, ret, raised) ==
        [db |-> db, ret |-> ret, raised |-> raised,
         tg_owner_id |-> tg_owner_id, bale_owner_id |-> bale_owner_id]
  IN IF tg_owner_id # NULL /\ bale_owner_id # NULL /\ tg_owner_id # bale_owner_id
     THEN LET d1 == reparent_all(d, tg_owner_id, bale_owner_id)
              us2 == set_tg_user_id(d1.users, bale_owner_id, tg_user_id)
              d3 == [d1 EXCEPT !.users = delete_user(us2, tg_owner_id)]
          IN IF idx_users_ok(us2)
             THEN Out(d3, bale_owner_id, FALSE)
             ELSE Out(Rollback(d, d1), NULL, TRUE)
     ELSE IF tg_owner_id # NULL /\ bale_owner_id = NULL
     THEN LET us1 == set_bale_user_id(d.users, tg_owner_id, bale_user_id)
          IN IF idx_users_ok(us1)
             THEN Out([d EXCEPT !.users = us1], tg_owner_id, FALSE)
             ELSE Out(Rollback(d, d), NULL, TRUE)
     ELSE IF bale_owner_id # NULL
     THEN LET us1 == set_tg_user_id(d.users, bale_owner_id, tg_user_id)
          IN IF idx_users_ok(us1)
             THEN Out([d EXCEPT !.users = us1], bale_owner_id, FALSE)
             ELSE Out(Rollback(d, d), NULL, TRUE)
     ELSE IF UserByTg(d, tg_user_id) # {}
     THEN Out(Rollback(d, d), NULL, TRUE)
     ELSE LET r == get_or_create_user_by_tg(d, tg_user_id)
          IN Out(r.db, r.id, FALSE)

\* merge_user_accounts run without interruption: the two SELECTs, then the
\* branch they choose.
merge_user_accounts(d, tg_user_id, bale_user_id) ==
  merge_apply(d, tg_user_id, bale_user_id,
              IdOf(UserByTg(d, tg_user_id)), IdOf(UserByBale(d, bale_user_id)))

\* ------------------------------------------------------------ environment
\* The type a platform reports for a chat id.
chat_type_of(c) ==
  IF c \in PAIR_GROUPS THEN "group" ELSE IF c \in CHANNELS THEN "channel" ELSE "private"

\* Telegram reports a group as "group" or "supergroup".
tg_chat_types(c) ==
  IF c \in PAIR_GROUPS THEN {"group", "supergroup"} ELSE {chat_type_of(c)}

\* The bots' own ids (tg_me.id, bale get_me().id): no user has them.
TG_BOT_ID == 99
BALE_SELF_ID == 98

\* aiogram gives a message to the first handler of the router whose filters
\* match, in registration order; channel posts arrive as channel_post
\* updates and reach only the channel_post handler.
tg_route(chat_type, cmd, in_wiz) ==
  IF chat_type = "channel" THEN "on_tg_channel_post"
  ELSE IF chat_type = "private" /\ cmd \in {"/start", "/help", "/myid"} THEN "on_start_help"
  ELSE IF cmd = "/verify_dm" THEN "on_tg_verify_dm"
  ELSE IF chat_type = "private" /\ in_wiz THEN "on_tg_await_bale_id"
  ELSE IF chat_type = "private" THEN "on_tg_dm"
  ELSE IF cmd = "/verify" THEN "on_tg_verify_in_group"
  ELSE IF chat_type \in {"group", "supergroup"} THEN "on_tg_group_forward"
  ELSE "unhandled"

\* The branch of poll_bale_updates a message update takes.
bale_route(chat_type, cmd, author_id) ==
  IF author_id # 0 /\ author_id = BALE_SELF_ID THEN "self"
  ELSE IF cmd = "/verify_dm" THEN "verify_dm"
  ELSE IF chat_type = "private" THEN "private"
  ELSE IF cmd = "/verify" THEN "verify"
  ELSE IF chat_type = "group" THEN "group"
  ELSE IF chat_type = "channel" THEN "channel"
  ELSE "unhandled"

\* ------------------------------------------------------------ bookkeeping
\* The codes create_verify_code can give out.
CODES == 1 .. MaxCodes
\* The codes the history variables follow.
HIST_CODES == 1 .. (MaxCodes + MaxPairCodes)
\* The codes a user may send: those, and one that is never given out.
SENT_CODES == 1 .. MaxCodes + 1

Ev(op, platform, user, chat, code, ret, reply) ==
  [op |-> op, platform |-> platform, user |-> user, chat |-> chat, code |-> code,
   ret |-> ret, reply |-> reply, raised |-> FALSE,
   tg_owner_id |-> NULL, bale_owner_id |-> NULL, before |-> <<>>, cmd |-> "none"]

TASKS == 1 .. MaxTasks
NoTask == [pc |-> "idle", user |-> 0, chat |-> 0, ty |-> "none", code |-> 0, rows |-> {}, ret |-> None]

Count(code, ret) ==
  IF ret # None /\ code \in DOMAIN redeemed
  THEN [redeemed EXCEPT ![code] = @ + 1]
  ELSE redeemed

\* What the two rows a merge looks up held before it ran: the Bale identity
\* of the row found by Telegram id and the Telegram identity of the row found
\* by Bale id (NULL when there is no such row).
IdentitiesBefore(d, tg_user_id, bale_user_id) ==
  <<IF UserByTg(d, tg_user_id) = {} THEN NULL
    ELSE (CHOOSE u \in UserByTg(d, tg_user_id) : TRUE).bale_user_id,
    IF UserByBale(d, bale_user_id) = {} THEN NULL
    ELSE (CHOOSE u \in UserByBale(d, bale_user_id) : TRUE).tg_user_id>>

\* ------------------------------------------------- handlers, run to the end
\* cb_link_tg_group / cb_link_tg_channel
cb_link_tg(u, kind) ==
  /\ LET o == get_or_create_user_by_tg(DB, u)
         r == create_verify_code(o.db, o.id, "tg", kind, u, now)
     IN /\ Commit(r.db)
        /\ issued_at' = [issued_at EXCEPT ![r.code] = now]
        /\ last' = Ev("cb_link_tg", "tg", u, u, r.code, None, "code")
  /\ UNCHANGED <<TG_WIZ, BALE_WIZ, now, redeemed, tasks>>

\* poll_bale_updates, callback B_LINK_GROUP / B_LINK_CHANNEL
B_LINK(u, kind) ==
  /\ LET o == get_or_create_user_by_bale(DB, u)
         r == create_verify_code(o.db, o.id, "bale", kind, u, now)
     IN /\ Commit(r.db)
        /\ issued_at' = [issued_at EXCEPT ![r.code] = now]
        /\ last' = Ev("B_LINK", "bale", u, u, r.code, None, "code")
  /\ UNCHANGED <<TG_WIZ, BALE_WIZ, now, redeemed, tasks>>

\* Mutant: a refused code is dropped without an answer.
verify_reply_silent(ret, platform_chat_type) ==
  IF ret = None THEN "none"
  ELSE IF ret[2] # platform_chat_type THEN "wrong_type" ELSE "linked"

\* What /verify answers: "Invalid/expired code", "Code is for a different
\* chat type", or "Linked this ...".
verify_reply(ret, platform_chat_type) ==
  IF ret = None THEN "invalid"
  ELSE IF ret[2] # platform_chat_type THEN "wrong_type" ELSE "linked"

\* on_tg_verify_in_group: code 0 is a message with no code after /verify.
on_tg_verify_in_group(u, c, ty, code) ==
  /\ tg_route(ty, "/verify", u \in DOMAIN TG_WIZ) = "on_tg_verify_in_group"
  /\ LET platform_chat_type == IF ty \in {"group", "supergroup"} THEN "group" ELSE "channel"
         r == consume_verify_code(DB, code, "tg", u, now)
     IN IF u = TG_BOT_ID \/ code = 0
        THEN /\ Commit(DB)
             /\ redeemed' = redeemed
             /\ last' = Ev("on_tg_verify_in_group", "tg", u, c, code, None, "none")
        ELSE /\ redeemed' = Count(code, r.ret)
             /\ IF r.ret = None
                THEN /\ Commit(r.db)
                     /\ last' = Ev("on_tg_verify_in_group", "tg", u, c, code, r.ret, verify_reply(r.ret, platform_chat_type))
                ELSE IF r.ret[2] # platform_chat_type
                THEN /\ Commit(r.db)
                     /\ last' = Ev("on_tg_verify_in_group", "tg", u, c, code, r.ret, verify_reply(r.ret, platform_chat_type))
                ELSE /\ Commit(register_chat(r.db, r.ret[1], "tg", r.ret[2], c))
                     /\ last' = Ev("on_tg_verify_in_group", "tg", u, c, code, r.ret, verify_reply(r.ret, platform_chat_type))
  /\ UNCHANGED <<TG_WIZ, BALE_WIZ, now, issued_at, tasks>>

\* poll_bale_updates, message branch /verify: a message with no code has code "" (0).
bale_verify(u, c, code) ==
  /\ bale_route(chat_type_of(c), "/verify", u) = "verify"
  /\ LET expected == chat_type_of(c)
         r == consume_verify_code(DB, code, "bale", u, now)
     IN /\ redeemed' = Count(code, r.ret)
        /\ IF r.ret = None
           THEN /\ Commit(r.db)
                /\ last' = Ev("bale_verify", "bale", u, c, code, r.ret, verify_reply(r.ret, expected))
           ELSE IF r.ret[2] # expected
           THEN /\ Commit(r.db)
                /\ last' = Ev("bale_verify", "bale", u, c, code, r.ret, verify_reply(r.ret, expected))
           ELSE /\ Commit(register_chat(r.db, r.ret[1], "bale", expected, c))
                /\ last' = Ev("bale_verify", "bale", u, c, code, r.ret, verify_reply(r.ret, expected))
  /\ UNCHANGED <<TG_WIZ, BALE_WIZ, now, issued_at, tasks>>

\* cb_my_groups: find-or-create the caller's owner, then list (a read).
cb_my_groups(u) ==
  /\ LET o == get_or_create_user_by_tg(DB, u)
     IN /\ Commit(o.db)
        /\ last' = Ev("cb_my_groups", "tg", u, u, 0, <<o.id>>, "list")
  /\ UNCHANGED <<TG_WIZ, BALE_WIZ, now, issued_at, redeemed, tasks>>

\* poll_bale_updates, callback B_MENU: every callback finds or creates the
\* caller's owner first.
B_MENU(u) ==
  /\ LET o == get_or_create_user_by_bale(DB, u)
     IN /\ Commit(o.db)
        /\ last' = Ev("B_MENU", "bale", u, u, 0, <<o.id>>, "menu")
  /\ UNCHANGED <<TG_WIZ, BALE_WIZ, now, issued_at, redeemed, tasks>>

\* BALE_WIZ.pop(cq_author_id, None)
wiz_pop(wiz, u) == [x \in DOMAIN wiz \ {u} |-> wiz[x]]

\* poll_bale_updates, callback B_PG_TG:<tg_id> / B_PC_TG:<tg_id>: step 1 of
\* the pairing wizard keeps the Telegram chat id the callback data carries.
B_P_TG(u, mode, tg_id) ==
  /\ LET o == get_or_create_user_by_bale(DB, u)
     IN /\ Commit(o.db)
        /\ BALE_WIZ' = [x \in DOMAIN BALE_WIZ \cup {u} |->
                          IF x = u THEN [mode |-> mode, tg_id |-> tg_id] ELSE BALE_WIZ[x]]
        /\ last' = Ev("B_P_TG", "bale", u, tg_id, 0, <<o.id>>, "step2")
  /\ UNCHANGED <<TG_WIZ, now, issued_at, redeemed, tasks>>

B_PG_TG(u, tg_id) == B_P_TG(u, "PAIR_G_WAIT_BALE", tg_id)
B_PC_TG(u, tg_id) == B_P_TG(u, "PAIR_C_WAIT_BALE", tg_id)

\* Mutant: the Telegram chat the wizard remembers is taken on trust.
pair_validated_bale_only(ok_tg, ok_bale) == ok_bale

\* if not (ok_tg and ok_bale): both chats are looked up in chats again.
pair_validated(ok_tg, ok_bale) == ok_tg /\ ok_bale

\* The process starts again: BALE_WIZ and TG_WIZ are module-level dicts and
\* start empty; the database file stays.
process_restart ==
  /\ BALE_WIZ' = <<>> /\ TG_WIZ' = <<>>
  /\ last' = Ev("restart", "none", 0, 0, 0, None, "none")
  /\ UNCHANGED <<users, seq, chats, group_links, channel_links, verify_tokens,
                 dm_verify_tokens, now, issued_at, redeemed, tasks>>

\* poll_bale_updates, callback B_G_ITEM:<bale_gid>: validate + pair.  An
\* exception of pair_groups leaves the handler before BALE_WIZ.pop.
B_G_ITEM(u, bale_gid) ==
  /\ LET o == get_or_create_user_by_bale(DB, u)
     IN IF u \notin DOMAIN BALE_WIZ \/ BALE_WIZ[u].mode # "PAIR_G_WAIT_BALE"
        THEN /\ Commit(o.db)
             /\ BALE_WIZ' = BALE_WIZ
             /\ last' = Ev("B_G_ITEM", "bale", u, bale_gid, 0, None, "select_tg_first")
        ELSE LET tg_id == BALE_WIZ[u].tg_id
                 ok_tg == chat_owned(o.db, o.id, "tg", "group", tg_id)
                 ok_bale == chat_owned(o.db, o.id, "bale", "group", bale_gid)
                 p == pair_groups(o.db, o.id, tg_id, bale_gid)
             IN IF ~pair_validated(ok_tg, ok_bale)
                THEN /\ Commit(o.db)
                     /\ BALE_WIZ' = wiz_pop(BALE_WIZ, u)
                     /\ last' = Ev("B_G_ITEM", "bale", u, bale_gid, 0, <<o.id, tg_id>>, "not_linked_to_you")
                ELSE IF p.raised
                THEN /\ Commit(p.db)
                     /\ BALE_WIZ' = BALE_WIZ
                     /\ last' = [Ev("B_G_ITEM", "bale", u, bale_gid, 0, <<o.id, tg_id>>, "error")
                                   EXCEPT !.raised = TRUE]
                ELSE /\ Commit(p.db)
                     /\ BALE_WIZ' = wiz_pop(BALE_WIZ, u)
                     /\ last' = Ev("B_G_ITEM", "bale", u, bale_gid, 0, <<o.id, tg_id>>, "paired")
  /\ UNCHANGED <<TG_WIZ, now, issued_at, redeemed, tasks>>

\* poll_bale_updates, callback B_C_ITEM:<bale_cid>: the same for channels.
B_C_ITEM(u, bale_cid) ==
  /\ LET o == get_or_create_user_by_bale(DB, u)
     IN IF u \notin DOMAIN BALE_WIZ \/ BALE_WIZ[u].mode # "PAIR_C_WAIT_BALE"
        THEN /\ Commit(o.db)
             /\ BALE_WIZ' = BALE_WIZ
             /\ last' = Ev("B_C_ITEM", "bale", u, bale_cid, 0, None, "select_tg_first")
        ELSE LET tg_id == BALE_WIZ[u].tg_id
                 ok_tg == chat_owned(o.db, o.id, "tg", "channel", tg_id)
                 ok_bale == chat_owned(o.db, o.id, "bale", "channel", bale_cid)
                 p == pair_channels(o.db, o.id, tg_id, bale_cid)
             IN IF ~pair_validated(ok_tg, ok_bale)
                THEN /\ Commit(o.db)
                     /\ BALE_WIZ' = wiz_pop(BALE_WIZ, u)
                     /\ last' = Ev("B_C_ITEM", "bale", u, bale_cid, 0, <<o.id, tg_id>>, "not_linked_to_you")
                ELSE IF p.raised
                THEN /\ Commit(p.db)
                     /\ BALE_WIZ' = BALE_WIZ
                     /\ last' = [Ev("B_C_ITEM", "bale", u, bale_cid, 0, <<o.id, tg_id>>, "error")
                                   EXCEPT !.raised = TRUE]
                ELSE /\ Commit(p.db)
                     /\ BALE_WIZ' = wiz_pop(BALE_WIZ, u)
                     /\ last' = Ev("B_C_ITEM", "bale", u, bale_cid, 0, <<o.id, tg_id>>, "paired")
  /\ UNCHANGED <<TG_WIZ, now, issued_at, redeemed, tasks>>

\* The clock moves on, to an instant next to the expiry of a token: one
\* second before it, at it or one second after it.
Tick(t) ==
  /\ t > now
  /\ \E r \in verify_tokens \cup dm_verify_tokens : t - r.expires_at \in {-1, 0, 1}
  /\ now' = t
  /\ last' = Ev("tick", "none", 0, 0, 0, None, "none")
  /\ UNCHANGED <<users, seq, chats, group_links, channel_links, verify_tokens,
                 dm_verify_tokens, TG_WIZ, BALE_WIZ, issued_at, redeemed, tasks>>

\* cb_set_dm_tg2bale_manual
cb_set_dm_tg2bale_manual(u) ==
  /\ TG_WIZ' = [x \in DOMAIN TG_WIZ \cup {u} |-> "AWAIT_BALE_ID"]
  /\ last' = Ev("cb_set_dm_tg2bale_manual", "tg", u, u, 0, None, "ask_bale_id")
  /\ UNCHANGED <<users, seq, chats, group_links, channel_links, verify_tokens,
                 dm_verify_tokens, BALE_WIZ, now, issued_at, redeemed, tasks>>

\* on_tg_await_bale_id: the next private message of a user in the wizard.
\* isdigit is whether the text is a number; bale_id is the number.
on_tg_await_bale_id(u, isdigit, bale_id) ==
  /\ tg_route("private", "text", u \in DOMAIN TG_WIZ) = "on_tg_await_bale_id"
  /\ TG_WIZ[u] = "AWAIT_BALE_ID"
  /\ IF ~isdigit
     THEN /\ Commit(DB)
          /\ TG_WIZ' = TG_WIZ
          /\ last' = Ev("on_tg_await_bale_id", "tg", u, 0, 0, None, "not_a_number")
     ELSE LET m == merge_user_accounts(DB, u, bale_id)
              r == create_dm_verify_code(m.db, m.ret, "bale", bale_id, now)
          IN /\ TG_WIZ' = [x \in DOMAIN TG_WIZ \ {u} |-> TG_WIZ[x]]
             /\ IF m.raised
                THEN /\ Commit(m.db)
                     /\ last' = [Ev("on_tg_await_bale_id", "tg", u, bale_id, 0, None, "error")
                                   EXCEPT !.raised = TRUE,
                                          !.tg_owner_id = m.tg_owner_id,
                                          !.bale_owner_id = m.bale_owner_id,
                                          !.before = IdentitiesBefore(DB, u, bale_id)]
                ELSE /\ Commit(r.db)
                     /\ last' = [Ev("on_tg_await_bale_id", "tg", u, bale_id, r.code, <<m.ret>>, "dm_code")
                                   EXCEPT !.tg_owner_id = m.tg_owner_id,
                                          !.bale_owner_id = m.bale_owner_id,
                                          !.before = IdentitiesBefore(DB, u, bale_id)]
  /\ UNCHANGED <<BALE_WIZ, now, issued_at, redeemed, tasks>>

\* on_tg_verify_dm: /verify_dm CODE in a Telegram chat; a message with no
\* code has code "" (0).
on_tg_verify_dm(u, c, ty, code) ==
  /\ tg_route(ty, "/verify_dm", u \in DOMAIN TG_WIZ) = "on_tg_verify_dm"
  /\ LET r == consume_dm_verify_code(DB, code, "tg", c, now)
     IN IF r.ret = NULL
        THEN /\ Commit(r.db)
             /\ last' = Ev("on_tg_verify_dm", "tg", u, c, code, None, "invalid")
        ELSE /\ Commit(set_dm_target_telegram(r.db, r.ret, c))
             /\ last' = Ev("on_tg_verify_dm", "tg", u, c, code, <<r.ret>>, "dm_target_set")
  /\ UNCHANGED <<TG_WIZ, BALE_WIZ, now, issued_at, redeemed, tasks>>

\* poll_bale_updates, message branch /verify_dm.
bale_verify_dm(u, c, code) ==
  /\ bale_route(chat_type_of(c), "/verify_dm", u) = "verify_dm"
  /\ LET r == consume_dm_verify_code(DB, code, "bale", c, now)
     IN IF r.ret = NULL
        THEN /\ Commit(r.db)
             /\ last' = Ev("bale_verify_dm", "bale", u, c, code, None, "invalid")
        ELSE /\ Commit(set_dm_target_bale(r.db, r.ret, c))
             /\ last' = Ev("bale_verify_dm", "bale", u, c, code, <<r.ret>>, "dm_target_set")
  /\ UNCHANGED <<TG_WIZ, BALE_WIZ, now, issued_at, redeemed, tasks>>

\* poll_bale_updates, callback B_SET_DM_TG2BALE_THIS: the owner of the
\* caller is found or created, then UPDATE users SET dm_target_bale_chat_id
\* = cq_chat_id, commit, and the confirmation.
B_SET_DM_TG2BALE_THIS(u, cq_chat_id) ==
  /\ LET o == get_or_create_user_by_bale(DB, u)
     IN /\ Commit(set_dm_target_bale(o.db, o.id, cq_chat_id))
        /\ last' = Ev("B_SET_DM_TG2BALE_THIS", "bale", u, cq_chat_id, 0, <<o.id>>, "saved")
  /\ UNCHANGED <<TG_WIZ, BALE_WIZ, now, issued_at, redeemed, tasks>>

\* poll_bale_updates, callbacks B_CLR_DM_TG2BALE and B_CLR_DM_BALE2TG: the
\* target is set to NULL, commit, and the confirmation.
B_CLR_DM(u, data) ==
  /\ LET o == get_or_create_user_by_bale(DB, u)
     IN /\ Commit(IF data = "B_CLR_DM_TG2BALE"
                  THEN set_dm_target_bale(o.db, o.id, NULL)
                  ELSE set_dm_target_telegram(o.db, o.id, NULL))
        /\ last' = Ev(data, "bale", u, u, 0, <<o.id>>, "cleared")
  /\ UNCHANGED <<TG_WIZ, BALE_WIZ, now, issued_at, redeemed, tasks>>

\* poll_bale_updates, callback B_SET_DM_BALE2TG: the wizard waits for a
\* Telegram chat id.
B_SET_DM_BALE2TG(u) ==
  /\ LET o == get_or_create_user_by_bale(DB, u)
     IN /\ Commit(o.db)
        /\ BALE_WIZ' = [x \in DOMAIN BALE_WIZ \cup {u} |->
                          IF x = u THEN [mode |-> "SET_DM_BALE2TG"] ELSE BALE_WIZ[x]]
        /\ last' = Ev("B_SET_DM_BALE2TG", "bale", u, u, 0, <<o.id>>, "ask_tg_id")
  /\ UNCHANGED <<TG_WIZ, now, issued_at, redeemed, tasks>>

\* poll_bale_updates, private branch in the wizard SET_DM_BALE2TG with a
\* text that is an integer: UPDATE users SET dm_target_telegram_chat_id =
\* the number, commit, BALE_WIZ.pop, and the confirmation.
bale_wizard_dm_target(u, target) ==
  /\ bale_route("private", "text", u) = "private"
  /\ u \in DOMAIN BALE_WIZ
  /\ BALE_WIZ[u].mode = "SET_DM_BALE2TG"
  /\ LET o == get_or_create_user_by_bale(DB, u)
     IN /\ Commit(set_dm_target_telegram(o.db, o.id, target))
        /\ BALE_WIZ' = wiz_pop(BALE_WIZ, u)
        /\ last' = Ev("bale_wizard_dm_target", "bale", u, u, 0, <<o.id, target>>, "dm_target_set")
  /\ UNCHANGED <<TG_WIZ, now, issued_at, redeemed, tasks>>

\* ----------------------------------------------------------- forwarding
\* A message is text here; author 0 is a message with no from_user / author.
\* A forward is recorded as reply "forward" with the target chat in ret; a
\* handler that sends nothing has reply "none".

\* message.from_user.id == bots.tg_bot_id
tg_is_self(u) == u = TG_BOT_ID

\* Mutant: a link is used whatever its enabled column holds.
link_dropped_unless_found(link) == link = {}

\* if not link or not link["enabled"]: return
link_dropped(link) == link = {} \/ \E l \in link : ~l.enabled

\* The row SELECT dm_target_* FROM users WHERE id=? returns.
user_row(d, id) == {r \in d.users : r.id = id}

\* on_tg_dm: a private message that no earlier handler took.  cmd is
\* "text" or a command other than /start, /help, /verify_dm.
on_tg_dm(u, cmd) ==
  /\ tg_route("private", cmd, u \in DOMAIN TG_WIZ) = "on_tg_dm"
  /\ IF cmd # "text"
     THEN /\ Commit(DB)
          /\ last' = Ev("on_tg_dm", "tg", u, u, 0, None, "unknown_command")
     ELSE LET o == get_or_create_user_by_tg(DB, u)
              row == user_row(o.db, o.id)
          IN /\ Commit(o.db)
             /\ IF \E r \in row : r.dm_target_bale_chat_id # NULL
                THEN last' = Ev("on_tg_dm", "tg", u, u, 0,
                                <<(CHOOSE r \in row : TRUE).dm_target_bale_chat_id>>, "forward")
                ELSE last' = Ev("on_tg_dm", "tg", u, u, 0, None, "not_forwarded")
  /\ UNCHANGED <<TG_WIZ, BALE_WIZ, now, issued_at, redeemed, tasks>>

\* on_tg_group_forward
on_tg_group_forward(u, c, ty) ==
  /\ tg_route(ty, "text", u \in DOMAIN TG_WIZ) = "on_tg_group_forward"
  /\ LET link == find_group_link_by_tg(DB, c)
     IN IF u = 0 \/ tg_is_self(u)
        THEN last' = Ev("on_tg_group_forward", "tg", u, c, 0, None, "none")
        ELSE IF link_dropped(link)
        THEN last' = Ev("on_tg_group_forward", "tg", u, c, 0, None, "none")
        ELSE last' = Ev("on_tg_group_forward", "tg", u, c, 0,
                        <<(CHOOSE l \in link : TRUE).bale_group_id>>, "forward")
  /\ UNCHANGED <<users, seq, chats, group_links, channel_links, verify_tokens,
                 dm_verify_tokens, TG_WIZ, BALE_WIZ, now, issued_at, redeemed, tasks>>

\* on_tg_channel_post: every channel post, whatever its text (cmd).
on_tg_channel_post(u, c, cmd) ==
  /\ tg_route("channel", cmd, u \in DOMAIN TG_WIZ) = "on_tg_channel_post"
  /\ LET link == find_channel_link_by_tg(DB, c)
         ev(ret, reply) == [Ev("on_tg_channel_post", "tg", u, c, 0, ret, reply) EXCEPT !.cmd = cmd]
     IN IF u # 0 /\ u = TG_BOT_ID
        THEN last' = ev(None, "none")
        ELSE IF link_dropped(link)
        THEN last' = ev(None, "none")
        ELSE last' = ev(<<(CHOOSE l \in link : TRUE).bale_channel_id>>, "forward")
  /\ UNCHANGED <<users, seq, chats, group_links, channel_links, verify_tokens,
                 dm_verify_tokens, TG_WIZ, BALE_WIZ, now, issued_at, redeemed, tasks>>

\* poll_bale_updates, message branch of a private chat: cmd is "text",
\* "/myid", "/start" or "/verify" (the test for /verify comes after this
\* branch, so that it is a text like any other here).  A text that is not a
\* number, in the wizard SET_DM_BALE2TG, is answered with a request for a
\* number.
bale_private(u, cmd) ==
  /\ bale_route("private", cmd, u) = "private"
  /\ LET o == get_or_create_user_by_bale(DB, u)
         row == user_row(o.db, o.id)
         ev(ret, reply) == [Ev("bale_private", "bale", u, u, 0, ret, reply) EXCEPT !.cmd = cmd]
     IN /\ Commit(o.db)
        /\ IF cmd = "/myid"
           THEN last' = ev(None, "myid")
           ELSE IF cmd = "/start"
           THEN last' = ev(None, "help")
           ELSE IF (IF u \in DOMAIN BALE_WIZ THEN BALE_WIZ[u].mode = "SET_DM_BALE2TG" ELSE FALSE)
           THEN last' = ev(None, "not_an_integer")
           ELSE IF \E r \in row : r.dm_target_telegram_chat_id # NULL
           THEN last' = ev(<<(CHOOSE r \in row : TRUE).dm_target_telegram_chat_id>>, "forward")
           ELSE last' = ev(None, "none")
  /\ UNCHANGED <<TG_WIZ, BALE_WIZ, now, issued_at, redeemed, tasks>>

\* poll_bale_updates, message branches "group -> TG group" and
\* "channel -> TG channel", and the self guard before them: what the
\* branch does with a text of author u in chat c, on database d.
bale_forward_ev(d, u, c) ==
  LET route == bale_route(chat_type_of(c), "text", u)
      link == IF route = "group" THEN find_group_link_by_bale(d, c)
              ELSE find_channel_link_by_bale(d, c)
  IN IF route = "self"
     THEN Ev("bale_self", "bale", u, c, 0, None, "none")
     ELSE IF link_dropped(link)
     THEN Ev("bale_" \o route, "bale", u, c, 0, None, "none")
     ELSE Ev("bale_" \o route, "bale", u, c, 0,
             <<IF route = "group" THEN (CHOOSE l \in link : TRUE).tg_group_id
               ELSE (CHOOSE l \in link : TRUE).tg_channel_id>>, "forward")

bale_forward(u, c) ==
  /\ bale_route(chat_type_of(c), "text", u) \in {"self", "group", "channel"}
  /\ last' = bale_forward_ev(DB, u, c)
  /\ UNCHANGED <<users, seq, chats, group_links, channel_links, verify_tokens,
                 dm_verify_tokens, TG_WIZ, BALE_WIZ, now, issued_at, redeemed, tasks>>

\* What a message carries: a text, or one medium with or without a caption.
Content(text, caption, media) == [text |-> text, caption |-> caption, media |-> media]

\* The forward_* calls of the group and channel branches of
\* poll_bale_updates, in order: text = msg.text or msg.caption; "if text",
\* then "if photo", "if document", "if video", each an if of its own.
bale_chat_calls(m) ==
  (IF m.text \/ m.caption THEN <<"text">> ELSE <<>>) \o
  (IF m.media = "photo" THEN <<"photo">> ELSE <<>>) \o
  (IF m.media = "document" THEN <<"document">> ELSE <<>>) \o
  (IF m.media = "video" THEN <<"video">> ELSE <<>>)

\* poll_bale_updates, group and channel branches, for a message of content
\* m: ret holds the destination of each forward_* call.
bale_forward_msg(u, c, m) ==
  /\ bale_route(chat_type_of(c), "text", u) \in {"self", "group", "channel"}
  /\ LET ev == bale_forward_ev(DB, u, c)
         calls == bale_chat_calls(m)
     IN last' = IF ev.reply = "forward"
                THEN [ev EXCEPT !.ret = [i \in 1 .. Len(calls) |-> ev.ret[1]],
                                !.cmd = m.media]
                ELSE [ev EXCEPT !.cmd = m.media]
  /\ UNCHANGED <<users, seq, chats, group_links, channel_links, verify_tokens,
                 dm_verify_tokens, TG_WIZ, BALE_WIZ, now, issued_at, redeemed, tasks>>

\* ------------------------------------------- the Bale loop, update by update
\* poll_bale_updates is one task: it asks the server for the updates from
\* offset on, handles them one after the other, sleeps and asks again.  Its
\* record holds offset, the updates of the batch not yet handled (batch),
\* every update that has arrived at the server (inbox), and the outcome of
\* each update handled so far, in order (handled).  An update is a text in
\* a group or channel; send_ok tells whether the outbound send of its
\* forward succeeds.
BALE_LOOP == 1

BaleLoop(pc, offset, batch, inbox, handled) ==
  [pc |-> pc, offset |-> offset, batch |-> batch, inbox |-> inbox, handled |-> handled,
   reconnects |-> 0]

\* A user writes in a Bale chat: the server queues the update.
bale_update_arrives(u, c, send_ok) ==
  /\ LET t == tasks[BALE_LOOP]
         upd == [update_id |-> Len(t.inbox) + 1, author |-> u, chat |-> c, send_ok |-> send_ok]
     IN tasks' = [tasks EXCEPT ![BALE_LOOP].inbox = Append(@, upd)]
  /\ UNCHANGED <<users, seq, chats, group_links, channel_links, verify_tokens,
                 dm_verify_tokens, TG_WIZ, BALE_WIZ, now, issued_at, redeemed, last>>

\* updates = await bots.bale.get_updates(offset, 100): the updates whose id
\* is offset or more (all of them while offset is None, here 0).
bale_get_updates ==
  /\ tasks[BALE_LOOP].pc = "poll"
  /\ LET t == tasks[BALE_LOOP]
     IN tasks' = [tasks EXCEPT ![BALE_LOOP].pc = "batch",
                               ![BALE_LOOP].batch =
                                 SelectSeq(t.inbox, LAMBDA upd : upd.update_id >= t.offset)]
  /\ UNCHANGED <<users, seq, chats, group_links, channel_links, verify_tokens,
                 dm_verify_tokens, TG_WIZ, BALE_WIZ, now, issued_at, redeemed, last>>

\* Mutant: offset moves on only past an update whose send went through.
next_offset_if_sent(offset, upd_id, sent) ==
  IF sent /\ upd_id + 1 > offset THEN upd_id + 1 ELSE offset

\* nxt = upd_id + 1; offset = nxt if (offset is None or nxt > offset) else
\* offset -- before the update is handled.
next_offset(offset, upd_id, sent) == IF upd_id + 1 > offset THEN upd_id + 1 ELSE offset

\* One turn of "for upd in updates": offset moves on, the message branch
\* runs; a send that fails raises inside the forward_* helper, which logs
\* it and returns.
bale_handle_update ==
  /\ tasks[BALE_LOOP].pc = "batch" /\ tasks[BALE_LOOP].batch # <<>>
  /\ LET t == tasks[BALE_LOOP]
         upd == Head(t.batch)
         ev == bale_forward_ev(DB, upd.author, upd.chat)
         sent == ev.reply = "forward" => upd.send_ok
         out == IF sent THEN ev ELSE [ev EXCEPT !.reply = "forward_failed"]
     IN /\ last' = out
        /\ tasks' = [tasks EXCEPT
             ![BALE_LOOP].offset = next_offset(t.offset, upd.update_id, sent),
             ![BALE_LOOP].batch = Tail(t.batch),
             ![BALE_LOOP].handled = Append(@, <<upd.update_id, out.reply>>)]
  /\ UNCHANGED <<users, seq, chats, group_links, channel_links, verify_tokens,
                 dm_verify_tokens, TG_WIZ, BALE_WIZ, now, issued_at, redeemed>>

\* The batch is done: await asyncio.sleep(BALE_POLL_INTERVAL), next turn.
bale_sleep ==
  /\ tasks[BALE_LOOP].pc = "batch" /\ tasks[BALE_LOOP].batch = <<>>
  /\ tasks' = [tasks EXCEPT ![BALE_LOOP].pc = "poll"]
  /\ UNCHANGED <<users, seq, chats, group_links, channel_links, verify_tokens,
                 dm_verify_tokens, TG_WIZ, BALE_WIZ, now, issued_at, redeemed, last>>

\* One turn of "for upd in updates" in which the handling raises (a
\* database error, a send of the callback branch): offset has moved on, the
\* except of the turn logs the exception and the loop takes the next update.
bale_handle_raises ==
  /\ tasks[BALE_LOOP].pc = "batch" /\ tasks[BALE_LOOP].batch # <<>>
  /\ LET t == tasks[BALE_LOOP]
         upd == Head(t.batch)
     IN /\ last' = [Ev("bale_update", "bale", upd.author, upd.chat, 0, None, "none")
                      EXCEPT !.raised = TRUE]
        /\ tasks' = [tasks EXCEPT
             ![BALE_LOOP].offset = next_offset(t.offset, upd.update_id, FALSE),
             ![BALE_LOOP].batch = Tail(t.batch),
             ![BALE_LOOP].handled = Append(@, <<upd.update_id, "raised">>)]
  /\ UNCHANGED <<users, seq, chats, group_links, channel_links, verify_tokens,
                 dm_verify_tokens, TG_WIZ, BALE_WIZ, now, issued_at, redeemed>>

\* Mutant: offset starts again from None after a reconnection.
reconnect_offset_lost(offset) == 0

\* offset is a local of poll_bale_updates set before the two loops: leaving
\* the inner loop and entering "async with bots.bale" again keeps it.
reconnect_offset(offset) == offset

\* get_updates raises: "Bale polling iteration error", break, and the client
\* context is left.
bale_poll_error ==
  /\ tasks[BALE_LOOP].pc = "poll"
  /\ tasks[BALE_LOOP].reconnects < MaxReconnects
  /\ tasks' = [tasks EXCEPT ![BALE_LOOP].pc = "reconnect",
                            ![BALE_LOOP].reconnects = @ + 1]
  /\ UNCHANGED <<users, seq, chats, group_links, channel_links, verify_tokens,
                 dm_verify_tokens, TG_WIZ, BALE_WIZ, now, issued_at, redeemed, last>>

\* The outer loop enters "async with bots.bale" again (after 5 s when the
\* context itself raised) and polls.
bale_reconnect ==
  /\ tasks[BALE_LOOP].pc = "reconnect"
  /\ tasks' = [tasks EXCEPT ![BALE_LOOP].pc = "poll",
                            ![BALE_LOOP].offset = reconnect_offset(@)]
  /\ UNCHANGED <<users, seq, chats, group_links, channel_links, verify_tokens,
                 dm_verify_tokens, TG_WIZ, BALE_WIZ, now, issued_at, redeemed, last>>

\* cb_set_dm_tg2bale_select: the callback data carries the Bale chat id.
cb_set_dm_tg2bale_select(u, bale_chat_id) ==
  /\ LET o == get_or_create_user_by_tg(DB, u)
         r == create_dm_verify_code(o.db, o.id, "bale", bale_chat_id, now)
     IN /\ Commit(r.db)
        /\ last' = Ev("cb_set_dm_tg2bale_select", "tg", u, bale_chat_id, r.code, <<o.id>>, "dm_code")
  /\ UNCHANGED <<TG_WIZ, BALE_WIZ, now, issued_at, redeemed, tasks>>

\* cb_set_dm_bale2tg: the callback data carries the Telegram chat id.
cb_set_dm_bale2tg(u, tg_chat_id) ==
  /\ LET o == get_or_create_user_by_tg(DB, u)
     IN /\ Commit(set_dm_target_telegram(o.db, o.id, tg_chat_id))
        /\ last' = Ev("cb_set_dm_bale2tg", "tg", u, tg_chat_id, 0, <<o.id>>, "dm_target_set")
  /\ UNCHANGED <<TG_WIZ, BALE_WIZ, now, issued_at, redeemed, tasks>>

\* ------------------------------- on_tg_verify_in_group, await by await
\* aiogram runs every update as its own task, each with a connection of its
\* own; a task gives way at each await.  Up to the first await result: the
\* SELECT of consume_verify_code.
tg_verify_select(h, u, c, ty, code) ==
  /\ tasks[h].pc = "idle"
  /\ tg_route(ty, "/verify", u \in DOMAIN TG_WIZ) = "on_tg_verify_in_group"
  /\ u # TG_BOT_ID /\ code # 0
  /\ tasks' = [tasks EXCEPT ![h] =
       [pc |-> "selected", user |-> u, chat |-> c, ty |-> ty, code |-> code,
        rows |-> select_verify_token(DB, code, "tg", u), ret |-> None]]
  /\ UNCHANGED <<users, seq, chats, group_links, channel_links, verify_tokens,
                 dm_verify_tokens, TG_WIZ, BALE_WIZ, now, issued_at, redeemed, last>>

\* The checks on the fetched row, then UPDATE + commit and the return.
tg_verify_update(h) ==
  /\ tasks[h].pc = "selected"
  /\ LET t == tasks[h]
     IN IF verify_row_ok(t.rows, now)
        THEN LET row == CHOOSE r \in t.rows : TRUE
             IN /\ Commit(mark_consumed(DB, t.code))
                /\ redeemed' = Count(t.code, <<row.owner_user_id, row.chat_type>>)
                /\ tasks' = [tasks EXCEPT ![h].pc = "consumed",
                                          ![h].ret = <<row.owner_user_id, row.chat_type>>]
                /\ last' = last
        ELSE /\ Commit(DB)
             /\ redeemed' = redeemed
             /\ tasks' = [tasks EXCEPT ![h] = NoTask]
             /\ last' = Ev("on_tg_verify_in_group", "tg", t.user, t.chat, t.code, None, "invalid")
  /\ UNCHANGED <<TG_WIZ, BALE_WIZ, now, issued_at>>

\* After consume_verify_code returned (owner, chat type): the kind check,
\* register_chat and the reply.
tg_verify_finish(h) ==
  /\ tasks[h].pc = "consumed"
  /\ LET t == tasks[h]
         platform_chat_type == IF t.ty \in {"group", "supergroup"} THEN "group" ELSE "channel"
     IN IF t.ret[2] # platform_chat_type
        THEN /\ Commit(DB)
             /\ last' = Ev("on_tg_verify_in_group", "tg", t.user, t.chat, t.code, t.ret, "wrong_type")
        ELSE /\ Commit(register_chat(DB, t.ret[1], "tg", t.ret[2], t.chat))
             /\ last' = Ev("on_tg_verify_in_group", "tg", t.user, t.chat, t.code, t.ret, "linked")
  /\ tasks' = [tasks EXCEPT ![h] = NoTask]
  /\ UNCHANGED <<TG_WIZ, BALE_WIZ, now, issued_at, redeemed>>

\* ---------------- find-or-create and merge, statement by statement (SQLite)
\* Every handler has a connection of its own to one WAL database.  A SELECT
\* outside a transaction reads the committed database.  A transaction that
\* has read (BEGIN, then SELECT) keeps the snapshot it read; when a commit
\* of another connection came after that snapshot, its first write raises
\* OperationalError "database is locked".  A write is checked against the
\* committed database, and other connections see it at the commit.

\* Mutant: a write goes through on an outdated snapshot.
snapshot_never_stale(t) == FALSE

\* Whether another connection committed after the task's snapshot.
snapshot_stale(t) == t.stale

\* A commit of task h outdates the snapshot of every open transaction.
mark_stale(ts, h) ==
  [k \in DOMAIN ts |->
     IF k # h /\ ts[k].pc = "merge_selected" THEN [ts[k] EXCEPT !.stale = TRUE] ELSE ts[k]]

OwnerTask(pc, platform, user, chat, tg_owner_id, bale_owner_id) ==
  [pc |-> pc, platform |-> platform, user |-> user, chat |-> chat,
   tg_owner_id |-> tg_owner_id, bale_owner_id |-> bale_owner_id,
   stale |-> FALSE, raised |-> FALSE, ret |-> NULL]

\* The Bale loop handles one update at a time.
bale_loop_free ==
  \A k \in TASKS : IF tasks[k].pc = "idle" THEN TRUE ELSE tasks[k].platform # "bale"

\* get_or_create_user_by_tg / get_or_create_user_by_bale, up to the result
\* of the SELECT (called by cb_my_groups, by the B_MENU callback).
get_or_create_select(h, platform, u) ==
  /\ tasks[h].pc = "idle"
  /\ platform = "bale" => bale_loop_free
  /\ LET rows == IF platform = "tg" THEN UserByTg(DB, u) ELSE UserByBale(DB, u)
     IN IF rows # {}
        THEN /\ tasks' = tasks
             /\ last' = Ev("get_or_create", platform, u, u, 0, <<IdOf(rows)>>, "found")
        ELSE /\ tasks' = [tasks EXCEPT ![h] = OwnerTask("goc_selected", platform, u, u, NULL, NULL)]
             /\ last' = last
  /\ UNCHANGED <<users, seq, chats, group_links, channel_links, verify_tokens,
                 dm_verify_tokens, TG_WIZ, BALE_WIZ, now, issued_at, redeemed>>

\* The INSERT, the commit and the second lookup.  The INSERT raises
\* IntegrityError under the unique index when a row has the identity by now.
get_or_create_insert(h) ==
  /\ tasks[h].pc = "goc_selected"
  /\ LET t == tasks[h]
         row == IF t.platform = "tg" THEN NewUser(seq + 1, t.user, NULL)
                ELSE NewUser(seq + 1, NULL, t.user)
     IN IF ~idx_users_ok(users \cup {row})
        THEN /\ Commit(DB)
             /\ tasks' = [tasks EXCEPT ![h] = NoTask]
             /\ last' = [Ev("get_or_create", t.platform, t.user, t.user, 0, None, "IntegrityError")
                           EXCEPT !.raised = TRUE]
        ELSE /\ Commit([DB EXCEPT !.users = @ \cup {row}, !.seq = @ + 1])
             /\ tasks' = [mark_stale(tasks, h) EXCEPT ![h] = NoTask]
             /\ last' = Ev("get_or_create", t.platform, t.user, t.user, 0, <<seq + 1>>, "created")
  /\ UNCHANGED <<TG_WIZ, BALE_WIZ, now, issued_at, redeemed>>

\* on_tg_await_bale_id with a number, up to the results of the two SELECTs
\* of merge_user_accounts (after BEGIN).
await_bale_id_select(h, u, bale_id) ==
  /\ tasks[h].pc = "idle"
  /\ tg_route("private", "text", u \in DOMAIN TG_WIZ) = "on_tg_await_bale_id"
  /\ TG_WIZ[u] = "AWAIT_BALE_ID"
  /\ tasks' = [tasks EXCEPT ![h] =
       OwnerTask("merge_selected", "tg", u, bale_id,
                 IdOf(UserByTg(DB, u)), IdOf(UserByBale(DB, bale_id)))]
  /\ UNCHANGED <<users, seq, chats, group_links, channel_links, verify_tokens,
                 dm_verify_tokens, TG_WIZ, BALE_WIZ, now, issued_at, redeemed, last>>

\* The writes of the branch the SELECTs chose, and the commit; or the
\* exception, db.rollback() and raise.
await_bale_id_write(h) ==
  /\ tasks[h].pc = "merge_selected"
  /\ LET t == tasks[h]
         m == merge_apply(DB, t.user, t.chat, t.tg_owner_id, t.bale_owner_id)
     IN IF snapshot_stale(t)
        THEN /\ Commit(Rollback(DB, DB))
             /\ tasks' = [tasks EXCEPT ![h].pc = "merge_returned", ![h].raised = TRUE]
        ELSE /\ Commit(m.db)
             /\ tasks' = [(IF m.raised THEN tasks ELSE mark_stale(tasks, h))
                            EXCEPT ![h].pc = "merge_returned",
                                   ![h].raised = m.raised, ![h].ret = m.ret]
  /\ UNCHANGED <<TG_WIZ, BALE_WIZ, now, issued_at, redeemed, last>>

\* After merge_user_accounts: create_dm_verify_code and the reply, or the
\* except branch; then del TG_WIZ[user_id], which raises KeyError when
\* another task of the user has deleted the entry.
await_bale_id_finish(h) ==
  /\ tasks[h].pc = "merge_returned"
  /\ LET t == tasks[h]
         r == create_dm_verify_code(DB, t.ret, "bale", t.chat, now)
         ev == [Ev("on_tg_await_bale_id", "tg", t.user, t.chat, 0, None, "error")
                  EXCEPT !.tg_owner_id = t.tg_owner_id, !.bale_owner_id = t.bale_owner_id]
     IN /\ IF t.raised
           THEN /\ Commit(DB)
                /\ tasks' = [tasks EXCEPT ![h] = NoTask]
                /\ last' = [ev EXCEPT !.raised = TRUE]
           ELSE /\ Commit(r.db)
                /\ tasks' = [mark_stale(tasks, h) EXCEPT ![h] = NoTask]
                /\ last' = [ev EXCEPT !.code = r.code, !.ret = <<t.ret>>,
                                      !.reply = IF t.user \in DOMAIN TG_WIZ
                                                THEN "dm_code" ELSE "dm_code_KeyError"]
        /\ TG_WIZ' = wiz_pop(TG_WIZ, t.user)
  /\ UNCHANGED <<BALE_WIZ, now, issued_at, redeemed>>

\* ------------------------------------- the statements of a handler, in order
\* What a handler does on its connection and on the adapters, in the order
\* of the source: "BEGIN", "select", "write" (INSERT, UPDATE, DELETE),
\* "commit", "rollback", and "send" for every adapter call (send_message,
\* reply, answer, edit_text).  The connection is in one of three states:
\* "none" (no transaction), "open" (begun, nothing written), "dirty"
\* (writes that are not committed).

\* Mutant: db.commit() leaves the writes pending.
tx_after_commit_lost(tx, stmt) ==
  IF stmt = "BEGIN" THEN (IF tx = "none" THEN "open" ELSE tx)
  ELSE IF stmt = "write" THEN "dirty"
  ELSE IF stmt = "rollback" THEN "none"
  ELSE tx

\* The state of the connection after a statement.
tx_after(tx, stmt) ==
  IF stmt = "BEGIN" THEN (IF tx = "none" THEN "open" ELSE tx)
  ELSE IF stmt = "write" THEN "dirty"
  ELSE IF stmt \in {"commit", "rollback"} THEN "none"
  ELSE tx

\* The states of the connection at the adapter calls of a run.
RECURSIVE tx_at_sends(_, _)
tx_at_sends(tx, stmts) ==
  IF stmts = <<>> THEN {}
  ELSE (IF Head(stmts) = "send" THEN {tx} ELSE {})
         \cup tx_at_sends(tx_after(tx, Head(stmts)), Tail(stmts))

\* get_or_create_user_by_tg / _by_bale: SELECT; when there is no row,
\* INSERT, commit and the SELECT of the recursive call.
get_or_create_stmts(found) ==
  IF found THEN <<"select">> ELSE <<"select", "write", "commit", "select">>

\* create_verify_code, create_dm_verify_code, register_chat, pair_groups,
\* pair_channels: one INSERT and the commit.
insert_stmts == <<"write", "commit">>

\* consume_verify_code / consume_dm_verify_code: SELECT, and on an accepted
\* code UPDATE and commit.
consume_stmts(accepted) ==
  IF accepted THEN <<"select", "write", "commit">> ELSE <<"select">>

\* merge_user_accounts: BEGIN, the two SELECTs, then the branch.  In the
\* merge of two rows the five re-parenting UPDATEs come before the UPDATE
\* of users that can raise; the except branch rolls back.
merge_stmts(tg_owner_id, bale_owner_id, raised) ==
  <<"BEGIN", "select", "select">> \o
  (IF tg_owner_id # NULL /\ bale_owner_id # NULL /\ tg_owner_id # bale_owner_id
   THEN <<"write", "write", "write", "write", "write">> \o
        (IF raised THEN <<"rollback">> ELSE <<"write", "write", "commit">>)
   ELSE IF tg_owner_id # NULL \/ bale_owner_id # NULL
   THEN (IF raised THEN <<"rollback">> ELSE <<"write", "commit">>)
   ELSE (IF raised THEN <<"select", "rollback">> ELSE get_or_create_stmts(FALSE)))

\* The statements of the handler that ended with event ev, started on
\* store d.
HandlerStmts(d, ev) ==
  LET tg_found == UserByTg(d, ev.user) # {}
      bale_found == UserByBale(d, ev.user) # {}
      accepted == ev.ret # None
  IN CASE ev.op \in {"init", "tick"} -> <<>>
       [] ev.op = "cb_link_tg" ->
            get_or_create_stmts(tg_found) \o insert_stmts \o <<"send", "send">>
       [] ev.op = "B_LINK" ->
            get_or_create_stmts(bale_found) \o insert_stmts \o <<"send", "send">>
       [] ev.op = "cb_my_groups" ->
            get_or_create_stmts(tg_found) \o <<"select", "send", "send">>
       [] ev.op = "B_MENU" ->
            get_or_create_stmts(bale_found) \o <<"send", "send">>
       [] ev.op \in {"on_tg_verify_in_group", "bale_verify"} ->
            IF ev.reply = "none" THEN <<>>
            ELSE consume_stmts(accepted) \o
                 (IF ev.reply = "linked" THEN insert_stmts ELSE <<>>) \o <<"send">>
       [] ev.op = "cb_set_dm_tg2bale_manual" -> <<"send", "send">>
       [] ev.op = "on_tg_await_bale_id" ->
            IF ev.reply = "not_a_number" THEN <<"send">>
            ELSE merge_stmts(ev.tg_owner_id, ev.bale_owner_id, ev.raised) \o
                 (IF ev.raised THEN <<>> ELSE insert_stmts) \o <<"send">>
       [] ev.op \in {"on_tg_verify_dm", "bale_verify_dm"} ->
            consume_stmts(accepted) \o
            (IF accepted THEN <<"write", "commit">> ELSE <<>>) \o <<"send">>
       [] ev.op \in {"B_SET_DM_TG2BALE_THIS", "B_CLR_DM_TG2BALE", "B_CLR_DM_BALE2TG"} ->
            get_or_create_stmts(bale_found) \o <<"write", "commit", "send", "send">>

\* ------------------------------------------------------------ specifications
Init ==
  /\ users = {} /\ seq = 0 /\ chats = {} /\ group_links = {} /\ channel_links = {}
  /\ verify_tokens = {} /\ dm_verify_tokens = {}
  /\ TG_WIZ = <<>>
  /\ BALE_WIZ = <<>>
  /\ now = 0
  /\ issued_at = [c \in HIST_CODES |-> 0]
  /\ redeemed = [c \in HIST_CODES |-> 0]
  /\ tasks = [h \in TASKS |-> NoTask]
  /\ last = Ev("init", "none", 0, 0, 0, None, "none")


\* MaxCodes and MaxDmCodes cap the rows of the two token tables.
Link ==
  /\ Cardinality(verify_tokens) < MaxCodes
  /\ \/ \E u \in TG_USERS, kind \in KINDS : cb_link_tg(u, kind)
     \/ \E u \in BALE_USERS, kind \in KINDS : B_LINK(u, kind)

\* /verify CODE sent by a user in a chat.
Verify ==
  \/ \E u \in TG_USERS, c \in TG_USERS \cup CHAT_IDS, code \in SENT_CODES :
        \E ty \in tg_chat_types(c) : on_tg_verify_in_group(u, c, ty, code)
  \/ \E u \in BALE_USERS, c \in BALE_USERS \cup CHAT_IDS, code \in SENT_CODES : bale_verify(u, c, code)

Clock == \E r \in verify_tokens \cup dm_verify_tokens, k \in {-1, 0, 1} : Tick(r.expires_at + k)

Wizard ==
  \/ \E u \in TG_USERS : cb_set_dm_tg2bale_manual(u)
  \/ /\ Cardinality(dm_verify_tokens) < MaxDmCodes
     /\ \E u \in TG_USERS, isdigit \in BOOLEAN, b \in BALE_USERS :
          on_tg_await_bale_id(u, isdigit, b)

\* The verification protocol, one handler at a time.
NextVerify == Link \/ Verify \/ Clock
SpecVerify == Init /\ [][NextVerify]_vars

Contact ==
  \/ \E u \in TG_USERS : cb_my_groups(u)
  \/ \E u \in BALE_USERS : B_MENU(u)

\* The requester of a code sends it in a chat of some type on its platform.
VerifyOwn ==
  \E r \in verify_tokens, c \in CHAT_IDS :
    \/ r.platform = "tg" /\ \E ty \in tg_chat_types(c) :
          on_tg_verify_in_group(r.platform_user_id, c, ty, r.code)
    \/ r.platform = "bale" /\ bale_verify(r.platform_user_id, c, r.code)

\* Owners, chats and the merge, one handler at a time.
NextMerge == Contact \/ Link \/ VerifyOwn \/ Wizard
SpecMerge == Init /\ [][NextMerge]_vars

\* The wizard run more than once: MaxMergeCodes caps the DM codes, one for
\* each merge that returns.  Owners and merges that follow one another.
NextRemerge ==
  \/ Contact
  \/ \E u \in TG_USERS : cb_set_dm_tg2bale_manual(u)
  \/ /\ Cardinality(dm_verify_tokens) < MaxMergeCodes
     /\ \E u \in TG_USERS, b \in BALE_USERS : on_tg_await_bale_id(u, TRUE, b)
SpecRemerge == Init /\ [][NextRemerge]_vars

\* Telegram /verify handlers as concurrent tasks.
VerifyTasks ==
  \/ \E h \in TASKS, u \in TG_USERS, c \in CHAT_IDS, code \in SENT_CODES :
       \E ty \in tg_chat_types(c) : tg_verify_select(h, u, c, ty, code)
  \/ \E h \in TASKS : tg_verify_update(h)
  \/ \E h \in TASKS : tg_verify_finish(h)

NextRace == Link \/ VerifyTasks
SpecRace == Init /\ [][NextRace]_vars

\* A DM code is sent in the chat it names, on either platform.
VerifyDmTarget ==
  \E r \in dm_verify_tokens :
    \/ \E u \in TG_USERS, ty \in tg_chat_types(r.target_chat_id) :
         on_tg_verify_dm(u, r.target_chat_id, ty, r.code)
    \/ \E u \in BALE_USERS : bale_verify_dm(u, r.target_chat_id, r.code)

\* Both kinds of code against the clock, one handler at a time.
NextExpiry == Link \/ VerifyOwn \/ Wizard \/ VerifyDmTarget \/ Clock
SpecExpiry == Init /\ [][NextExpiry]_vars

\* The same handlers under a clock that keeps advancing: datetime.now() of
\* a later call is later, so a step of the clock that is possible is taken.
SpecLive == Init /\ [][NextExpiry]_vars /\ WF_vars(Clock)

\* Codes, /verify as a message and as a channel post (a channel_post
\* update, whose author may be absent), and the clock.
NextChannel ==
  \/ Link
  \/ Verify
  \/ \E u \in TG_USERS \cup {0}, c \in CHANNELS : on_tg_channel_post(u, c, "/verify")
  \/ Clock
SpecChannel == Init /\ [][NextChannel]_vars

\* The users of the pairing scenarios.
PAIR_USERS == 1 .. MaxPairUsers

\* The pairing wizard of the Bale loop: the callback data carries a chat id.
Pair ==
  \/ \E u \in PAIR_USERS, c \in CHAT_IDS : B_PG_TG(u, c)
  \/ \E u \in PAIR_USERS, c \in CHAT_IDS : B_PC_TG(u, c)
  \/ \E u \in PAIR_USERS, c \in CHAT_IDS : B_G_ITEM(u, c)
  \/ \E u \in PAIR_USERS, c \in CHAT_IDS : B_C_ITEM(u, c)

\* MaxPairCodes caps the verify codes where two chats are to be linked.
LinkPair ==
  /\ Cardinality(verify_tokens) < MaxPairCodes
  /\ \/ \E u \in PAIR_USERS, kind \in KINDS : cb_link_tg(u, kind)
     \/ \E u \in PAIR_USERS, kind \in KINDS : B_LINK(u, kind)

\* The Telegram wizard that merges the two identities of a user.
WizardPair ==
  \/ \E u \in PAIR_USERS : cb_set_dm_tg2bale_manual(u)
  \/ /\ Cardinality(dm_verify_tokens) < MaxDmCodes
     /\ \E u \in PAIR_USERS, b \in PAIR_USERS : on_tg_await_bale_id(u, TRUE, b)

\* Link, redeem, merge and pair, one handler at a time.
NextPair == LinkPair \/ VerifyOwn \/ WizardPair \/ Pair
SpecPair == Init /\ [][NextPair]_vars

\* The same with a process that can start again at any point.
NextWiz == NextPair \/ process_restart
SpecWiz == Init /\ [][NextWiz]_vars

\* An owner with both identities (after a merge) who has linked two groups
\* on each platform, and has paired none yet.
InitMulti ==
  /\ users = {NewUser(1, 1, 1)}
  /\ seq = 1
  /\ chats = register_chat(register_chat(register_chat(register_chat(
               EmptyDB, 1, "tg", "group", 11), 1, "bale", "group", 11),
               1, "tg", "group", 13), 1, "bale", "group", 13).chats
  /\ group_links = {} /\ channel_links = {}
  /\ verify_tokens = {} /\ dm_verify_tokens = {}
  /\ TG_WIZ = <<>>
  /\ BALE_WIZ = <<>>
  /\ now = 0
  /\ issued_at = [c \in HIST_CODES |-> 0]
  /\ redeemed = [c \in HIST_CODES |-> 0]
  /\ last = Ev("init", "none", 0, 0, 0, None, "none")
  /\ tasks = [h \in TASKS |-> NoTask]

\* The group pairing wizard and the messages of the groups.
NextMulti ==
  \/ \E c \in PAIR_GROUPS : B_PG_TG(1, c)
  \/ \E c \in PAIR_GROUPS : B_G_ITEM(1, c)
  \/ \E c \in PAIR_GROUPS : \E ty \in tg_chat_types(c) : on_tg_group_forward(1, c, ty)
  \/ \E c \in PAIR_GROUPS : bale_forward(1, c)
SpecMulti == InitMulti /\ [][NextMulti]_vars

\* A new task takes the first free slot (the slots are interchangeable).
FirstIdle(h) == tasks[h].pc = "idle" /\ \A k \in TASKS : k < h => tasks[k].pc # "idle"

\* on_tg_await_bale_id as concurrent tasks; at most n merges are begun
\* (every finished merge that returned left a DM code).
MergeTasks(n) ==
  \/ \E u \in TG_USERS : cb_set_dm_tg2bale_manual(u)
  \/ /\ Cardinality(dm_verify_tokens)
          + Cardinality({h \in TASKS : tasks[h].pc \in {"merge_selected", "merge_returned"}}) < n
     /\ \E h \in TASKS, u \in TG_USERS, b \in BALE_USERS :
          FirstIdle(h) /\ await_bale_id_select(h, u, b)
  \/ \E h \in TASKS : await_bale_id_write(h)
  \/ \E h \in TASKS : await_bale_id_finish(h)

\* Find-or-create of one loop as concurrent tasks.
OwnerTasks(platform, ids) ==
  \/ \E h \in TASKS, u \in ids : FirstIdle(h) /\ get_or_create_select(h, platform, u)
  \/ \E h \in TASKS : get_or_create_insert(h)

\* Find-or-create from both loops and merges, interleaved at every await.
NextOwners ==
  OwnerTasks("tg", TG_USERS) \/ OwnerTasks("bale", BALE_USERS) \/ MergeTasks(MaxOwnerMerges)
SpecOwners == Init /\ [][NextOwners]_vars

\* Merges interleaved at every await, among users the Telegram bot has met.
NextMergeRace == OwnerTasks("tg", TG_USERS) \/ MergeTasks(MaxRaceMerges)
SpecMergeRace == Init /\ [][NextMergeRace]_vars

\* Chat registration and the merge, one handler at a time, with two codes
\* of any users, so that a chat can be claimed twice.
NextChats ==
  \/ /\ Cardinality(verify_tokens) < MaxPairCodes
     /\ \/ \E u \in TG_USERS, kind \in KINDS : cb_link_tg(u, kind)
        \/ \E u \in BALE_USERS, kind \in KINDS : B_LINK(u, kind)
  \/ VerifyOwn
  \/ Wizard
SpecChats == Init /\ [][NextChats]_vars

\* Routing.  The database at the start holds one owner known on both
\* platforms, a registered group and channel on each side, and for each
\* kind no link, a link, or a link with enabled = 0 (the column exists, and
\* no statement of the program writes it).
RouteLinks(kind) ==
  {{}} \cup {{IF kind = "group"
              THEN [id |-> 1, owner_user_id |-> 1, tg_group_id |-> 11,
                    bale_group_id |-> 11, enabled |-> e]
              ELSE [id |-> 1, owner_user_id |-> 1, tg_channel_id |-> 12,
                    bale_channel_id |-> 12, enabled |-> e]} : e \in BOOLEAN}

RouteStore ==
  /\ users = {NewUser(1, 1, 1)}
  /\ seq = 1
  /\ chats = register_chat(register_chat(register_chat(register_chat(
               EmptyDB, 1, "tg", "group", 11), 1, "bale", "group", 11),
               1, "tg", "channel", 12), 1, "bale", "channel", 12).chats
  /\ group_links \in RouteLinks("group")
  /\ channel_links \in RouteLinks("channel")
  /\ verify_tokens = {} /\ dm_verify_tokens = {}
  /\ TG_WIZ = <<>>
  /\ BALE_WIZ = <<>>
  /\ now = 0
  /\ issued_at = [c \in HIST_CODES |-> 0]
  /\ redeemed = [c \in HIST_CODES |-> 0]
  /\ last = Ev("init", "none", 0, 0, 0, None, "none")

InitRoute == RouteStore /\ tasks = [h \in TASKS |-> NoTask]

\* Who a message or a callback query can name as its author: the users,
\* and the bot's own account.
TG_AUTHORS == (1 .. MaxRouteUsers) \cup {TG_BOT_ID}
BALE_AUTHORS == (1 .. MaxRouteUsers) \cup {BALE_SELF_ID}
BALE_PRIVATE == 1 .. MaxRouteUsers
\* Who writes to the bots in private: the users above and one the database
\* has no row of.
DM_SENDERS == 1 .. MaxRouteUsers + 1

TgMessage ==
  \/ \E u \in DM_SENDERS \cup {TG_BOT_ID}, cmd \in {"text", "/other"} : on_tg_dm(u, cmd)
  \/ \E u \in TG_AUTHORS \cup {0}, c \in GROUPS :
       \E ty \in tg_chat_types(c) : on_tg_group_forward(u, c, ty)
  \/ \E u \in TG_AUTHORS \cup {0}, c \in CHANNELS, cmd \in {"text", "/verify"} :
       on_tg_channel_post(u, c, cmd)

BaleMessage ==
  \/ \E u \in DM_SENDERS, cmd \in {"text", "/myid", "/start", "/verify"} :
       bale_private(u, cmd)
  \/ \E u \in BALE_AUTHORS \cup {0}, c \in BALE_PRIVATE \cup CHAT_IDS : bale_forward(u, c)

DmSettings ==
  \/ /\ Cardinality(dm_verify_tokens) < MaxDmCodes
     /\ \E u \in TG_AUTHORS, c \in BALE_PRIVATE : cb_set_dm_tg2bale_select(u, c)
  \/ \E u \in BALE_PRIVATE, code \in 0 .. MaxDmCodes : bale_verify_dm(u, u, code)
  \/ \E u \in 1 .. MaxRouteUsers : cb_set_dm_bale2tg(u, u)

NextRoute == TgMessage \/ BaleMessage \/ DmSettings
SpecRoute == InitRoute /\ [][NextRoute]_vars

\* Routing of texts on both platforms, and messages of every content (a
\* text, or a photo, document or video with or without caption) in the Bale
\* groups and channels.
NextMedia ==
  \/ TgMessage
  \/ BaleMessage
  \/ \E u \in BALE_AUTHORS \cup {0}, c \in CHAT_IDS :
       \/ bale_forward_msg(u, c, Content(TRUE, FALSE, "none"))
       \/ \E cap \in BOOLEAN, md \in {"photo", "document", "video"} :
            bale_forward_msg(u, c, Content(FALSE, cap, md))
SpecMedia == InitRoute /\ [][NextMedia]_vars

\* Redemptions and merges that can be refused, one handler at a time; a DM
\* code is sent by its Bale target or by another Bale user, each in the
\* private chat with the bot.
NextRefusals ==
  \/ Contact \/ Link \/ VerifyOwn \/ Wizard
  \/ \E r \in dm_verify_tokens, u \in BALE_USERS : bale_verify_dm(u, u, r.code)
SpecRefusals == Init /\ [][NextRefusals]_vars

\* The DM target callbacks of Bale, in the private chat of the caller.
BaleDmCallbacks ==
  \E u \in BALE_USERS :
    \/ B_SET_DM_TG2BALE_THIS(u, u)
    \/ \E data \in {"B_CLR_DM_TG2BALE", "B_CLR_DM_BALE2TG"} : B_CLR_DM(u, data)

\* Every handler that writes, one handler at a time.
NextTx == Link \/ VerifyOwn \/ Wizard \/ VerifyDmTarget \/ BaleDmCallbacks
SpecTx == Init /\ [][NextTx]_vars

\* Every way the DM targets are written.  In the Bale wizard that asks for
\* a Telegram chat id the user types the id of a Telegram user or of a
\* Telegram chat.
NextDmTarget ==
  \/ DmSettings \/ VerifyDmTarget \/ BaleDmCallbacks
  \/ \E u \in BALE_PRIVATE :
       \/ B_SET_DM_BALE2TG(u)
       \/ \E target \in TG_USERS \cup CHAT_IDS : bale_wizard_dm_target(u, target)
SpecDmTarget == Init /\ [][NextDmTarget]_vars

\* The Bale loop over updates that arrive while it runs.
InitBatch ==
  /\ RouteStore
  /\ tasks = [h \in TASKS |-> IF h = BALE_LOOP THEN BaleLoop("poll", 0, <<>>, <<>>, <<>>)
                              ELSE NoTask]

NextBatch ==
  \/ /\ Len(tasks[BALE_LOOP].inbox) < MaxUpdates
     /\ \E u \in BALE_AUTHORS, c \in CHAT_IDS, send_ok \in BOOLEAN :
          bale_update_arrives(u, c, send_ok)
  \/ bale_get_updates
  \/ bale_handle_update
  \/ bale_sleep
SpecBatch == InitBatch /\ [][NextBatch]_vars

\* The Bale loop with handlers that raise and a connection that breaks.
NextPoll ==
  \/ /\ Len(tasks[BALE_LOOP].inbox) < MaxUpdates
     /\ \E u \in BALE_AUTHORS, c \in CHAT_IDS : bale_update_arrives(u, c, TRUE)
  \/ bale_get_updates
  \/ bale_handle_update
  \/ bale_handle_raises
  \/ bale_sleep
  \/ bale_poll_error
  \/ bale_reconnect
SpecPoll == InitBatch /\ [][NextPoll]_vars

\* ------------------------------------------------------------------ claims
VerifyOps == {"on_tg_verify_in_group", "bale_verify"}
WizOp == "on_tg_await_bale_id"
\* The last handler run was on_tg_await_bale_id and it called merge_user_accounts.
MergeRan(l) == l.op = WizOp /\ l.reply \in {"dm_code", "error"}

\* C1: over a sequential history of consume_verify_code calls on a code, at
\* most one call returns (owner, kind); once a call has succeeded, every
\* later call with that code returns None.
C1_Step ==
  /\ \A c \in CODES : redeemed'[c] <= 1
  /\ \A r \in verify_tokens :
       (redeemed[r.code] >= 1 /\ last'.op \in VerifyOps /\ last'.code = r.code)
         => last'.ret = None
\* C1 at every step of a history in which each call runs to its end.
Thm_C1 == [][C1_Step]_vars

\* C1 witness: the requester redeems an unexpired code a second time, on its
\* platform, and is refused.
Wit_C1 ==
  /\ last.op \in VerifyOps /\ last.ret = None
  /\ \E r \in verify_tokens :
       /\ r.code = last.code /\ r.platform = last.platform
       /\ r.platform_user_id = last.user
       /\ redeemed[r.code] = 1 /\ ~is_expired(r.expires_at, now)

\* C2: when consume_verify_code calls for one code run concurrently, giving
\* way at each await between the SELECT and the UPDATE, at most one of them
\* returns (owner, kind).
Cex_C2 == \A c \in CODES : redeemed[c] <= 1

\* C3: merge in case 4 (the two identities resolve to two different rows)
\* completes; afterwards every chat, link and token row of the Telegram-keyed
\* row is owned by the Bale-keyed row, which carries both identities, the
\* Telegram-keyed row is gone and the Bale-keyed row's id is returned.
C3_Step ==
  LET t == last'.tg_owner_id
      b == last'.bale_owner_id
  IN (MergeRan(last') /\ t # NULL /\ b # NULL /\ t # b) =>
       /\ ~last'.raised
       /\ last'.ret = <<b>>
       /\ chats' = reparent(chats, t, b)
       /\ group_links' = reparent(group_links, t, b)
       /\ channel_links' = reparent(channel_links, t, b)
       /\ verify_tokens' = reparent(verify_tokens, t, b)
       /\ reparent(dm_verify_tokens, t, b) \subseteq dm_verify_tokens'
       /\ \E u \in users' : u.id = b /\ u.tg_user_id = last'.user /\ u.bale_user_id = last'.chat
       /\ ~ \E u \in users' : u.id = t
\* C3 at every step in which the merge ran.
Cex_C3 == [][C3_Step]_vars

\* C4: a merge that fails leaves the store as it was before the call: both
\* rows with their identities, every chat, link and token with its owner.
C4_Step == (MergeRan(last') /\ last'.raised) => DB' = DB
\* C4 at every step in which the merge ran.
Thm_C4 == [][C4_Step]_vars

\* C4 witness: a merge failed after it had reparented a chat of the
\* Telegram-keyed row.
Wit_C4 ==
  /\ MergeRan(last) /\ last.raised
  /\ \E c \in chats : c.owner_user_id = last.tg_owner_id

\* C5: merge is idempotent: after merge_user_accounts(t, b) has run, a second
\* call with the same pair returns the same owner id and leaves the store as
\* the first call left it, and no identity is on two rows.
Cex_C5 ==
  MergeRan(last) =>
    /\ ~last.raised
    /\ LET m == merge_user_accounts(DB, last.user, last.chat)
       IN ~m.raised /\ <<m.ret>> = last.ret /\ m.db = DB
    /\ idx_users_ok(users)

\* C6: merge case 1: when no row has the Telegram identity and none has the
\* Bale identity, the merge creates exactly one row, with both identities,
\* and returns its id.
C6_Step ==
  (MergeRan(last') /\ last'.tg_owner_id = NULL /\ last'.bale_owner_id = NULL) =>
    \E row \in users' :
      /\ row \notin users /\ users' = users \cup {row}
      /\ row.tg_user_id = last'.user /\ row.bale_user_id = last'.chat
      /\ last'.ret = <<row.id>>
\* C6 at every step in which the merge ran.
Cex_C6 == [][C6_Step]_vars

\* C7: merge case 2: a row has the Telegram identity and no Bale identity,
\* and no row has the Bale id: the merge sets the Bale identity on that row,
\* returns its id, adds no row, and a second call changes nothing.
C7_Step ==
  \A o \in users :
    (/\ MergeRan(last') /\ o.tg_user_id = last'.user /\ o.bale_user_id = NULL
     /\ UserByBale(DB, last'.chat) = {})
    => /\ ~last'.raised
       /\ users' = (users \ {o}) \cup {[o EXCEPT !.bale_user_id = last'.chat]}
       /\ last'.ret = <<o.id>>
       /\ LET m == merge_user_accounts(DB', last'.user, last'.chat)
          IN ~m.raised /\ m.ret = o.id /\ m.db = DB'
\* C7 at every step in which the merge ran.
Thm_C7 == [][C7_Step]_vars

\* C7 witness: a merge ran for a Telegram user whose row had no Bale identity
\* and a Bale id no row had.
Wit_C7 ==
  /\ MergeRan(last) /\ ~last.raised
  /\ last.tg_owner_id # NULL /\ last.bale_owner_id = NULL
  /\ last.before = <<NULL, NULL>>

\* C8: a redemption refused for a kind mismatch does not consume the token
\* (so the requester can still redeem the code in a chat of the right kind).
Cex_C8 ==
  (last.op \in VerifyOps /\ last.reply = "wrong_type") =>
    \A r \in verify_tokens : r.code = last.code => ~r.consumed

\* C9: consume_verify_code with another platform or another platform user id
\* than the token's returns None, whatever the token's state, and leaves the
\* token and the rest of the store unchanged.
C9_Step ==
  (/\ last'.op \in VerifyOps
   /\ \E r \in verify_tokens :
        /\ r.code = last'.code
        /\ (r.platform # last'.platform \/ r.platform_user_id # last'.user))
  => last'.ret = None /\ DB' = DB
\* C9 at every redemption.
Thm_C9 == [][C9_Step]_vars

\* C9 witness: another user of the token's platform presents an unconsumed,
\* unexpired code and is refused.
Wit_C9 ==
  /\ last.op \in VerifyOps /\ last.ret = None
  /\ \E r \in verify_tokens :
       /\ r.code = last.code /\ r.platform = last.platform
       /\ r.platform_user_id # last.user
       /\ ~r.consumed /\ ~is_expired(r.expires_at, now)

\* C10: a token issued at t expires at t + 10 minutes; a redemption after
\* t + 10 minutes is refused; a redemption of an unconsumed token by its
\* requester on its platform at t + 10 minutes - 1 second succeeds.
C10_Step ==
  /\ \A r \in verify_tokens' : r.expires_at = issued_at'[r.code] + TTL
  /\ \A r \in verify_tokens :
       (last'.op \in VerifyOps /\ last'.code = r.code) =>
         /\ (now > issued_at[r.code] + TTL => last'.ret = None)
         /\ (/\ now = issued_at[r.code] + TTL - 1
             /\ ~r.consumed
             /\ r.platform = last'.platform /\ r.platform_user_id = last'.user)
            => last'.ret # None
\* C10 at every issue and every redemption.
Thm_C10 == [][C10_Step]_vars

\* C10 witness: a redemption one second before the expiry succeeded.
Wit_C10 ==
  /\ last.op \in VerifyOps /\ last.ret # None
  /\ now = issued_at[last.code] + TTL - 1

\* C11: the expiry boundary is inclusive: a redemption of a verify code or
\* of a DM verify code at an instant now >= expires_at, the instant
\* now = expires_at included, is refused.
DmVerifyOps == {"on_tg_verify_dm", "bale_verify_dm"}
C11_Step ==
  /\ \A r \in verify_tokens :
       (last'.op \in VerifyOps /\ last'.code = r.code /\ now >= r.expires_at)
         => last'.ret = None
  /\ \A r \in dm_verify_tokens :
       (last'.op \in DmVerifyOps /\ last'.code = r.code /\ now >= r.expires_at)
         => last'.ret = None
\* C11 at every redemption.
Cex_C11 == [][C11_Step]_vars

\* A chats row (owner o, platform, kind, chat id c) is in the table.
Registered(o, platform, kind, c) ==
  [owner_user_id |-> o, platform |-> platform, chat_type |-> kind, chat_id |-> c] \in chats

\* C12: tenant isolation: in every reachable state each group_links and
\* channel_links row names a Telegram chat and a Bale chat that are both in
\* chats, both of the pairing's kind and both owned by the owner of the row;
\* so the chat a group or channel message is routed to is a chat of the owner
\* of the chat it came from.
Thm_C12 ==
  /\ \A l \in group_links :
       /\ Registered(l.owner_user_id, "tg", "group", l.tg_group_id)
       /\ Registered(l.owner_user_id, "bale", "group", l.bale_group_id)
  /\ \A l \in channel_links :
       /\ Registered(l.owner_user_id, "tg", "channel", l.tg_channel_id)
       /\ Registered(l.owner_user_id, "bale", "channel", l.bale_channel_id)
  /\ \A c \in CHAT_IDS :
       /\ \A l \in find_group_link_by_tg(DB, c) : \E x \in chats :
            /\ Registered(x.owner_user_id, "tg", "group", c)
            /\ Registered(x.owner_user_id, "bale", "group", l.bale_group_id)
       /\ \A l \in find_group_link_by_bale(DB, c) : \E x \in chats :
            /\ Registered(x.owner_user_id, "bale", "group", c)
            /\ Registered(x.owner_user_id, "tg", "group", l.tg_group_id)
       /\ \A l \in find_channel_link_by_tg(DB, c) : \E x \in chats :
            /\ Registered(x.owner_user_id, "tg", "channel", c)
            /\ Registered(x.owner_user_id, "bale", "channel", l.bale_channel_id)
       /\ \A l \in find_channel_link_by_bale(DB, c) : \E x \in chats :
            /\ Registered(x.owner_user_id, "bale", "channel", c)
            /\ Registered(x.owner_user_id, "tg", "channel", l.tg_channel_id)

\* C12 witness: a pairing was made, by an owner who holds both identities and
\* has a chat on each platform.
Wit_C12 ==
  /\ last.reply = "paired"
  /\ group_links \cup channel_links # {}
  /\ \E u \in users : u.tg_user_id # NULL /\ u.bale_user_id # NULL

\* C13: a pairing request is refused, and no group_links or channel_links
\* row is inserted, whenever one of the two chosen chats is not registered to
\* the requesting owner as a chat of the pairing's kind -- also when both
\* chats are registered, to two different owners.
PairOps == {"B_G_ITEM", "B_C_ITEM"}
C13_Step ==
  last'.op \in PairOps =>
    LET u == last'.user
        kind == IF last'.op = "B_G_ITEM" THEN "group" ELSE "channel"
        o == IdOf(UserByBale(DB', u))
    IN (\/ u \notin DOMAIN BALE_WIZ
        \/ ~Registered(o, "tg", kind, BALE_WIZ[u].tg_id)
        \/ ~Registered(o, "bale", kind, last'.chat))
       => /\ group_links' = group_links
          /\ channel_links' = channel_links
          /\ last'.reply # "paired"
\* C13 at every pairing request.
Thm_C13 == [][C13_Step]_vars

\* C13 witness: a pairing of two registered chats of the same kind was
\* refused because they belong to two different owners.
Wit_C13 ==
  /\ last.op \in PairOps /\ last.reply = "not_linked_to_you"
  /\ \E x, y \in chats :
       /\ x.platform = "tg" /\ x.chat_id = last.ret[2]
       /\ y.platform = "bale" /\ y.chat_id = last.chat
       /\ x.chat_type = y.chat_type
       /\ x.chat_type = (IF last.op = "B_G_ITEM" THEN "group" ELSE "channel")
       /\ x.owner_user_id # y.owner_user_id
       /\ y.owner_user_id = last.ret[1]

\* ---- C14 .. C16: owners under concurrent tasks
\* No Telegram id and no Bale id is on two different owner rows.
NoSharedIdentity(us) ==
  \A r1, r2 \in us :
    r1 # r2 =>
      /\ ~(r1.tg_user_id # NULL /\ r1.tg_user_id = r2.tg_user_id)
      /\ ~(r1.bale_user_id # NULL /\ r1.bale_user_id = r2.bale_user_id)

\* C14: in every reachable state, under every interleaving of find-or-create
\* and merge tasks of the two loops, each owner row has a non-NULL platform
\* identity and no identity value is on two owner rows.
Thm_C14 ==
  /\ \A r \in users : r.tg_user_id # NULL \/ r.bale_user_id # NULL
  /\ NoSharedIdentity(users)

\* Two tasks raced for one identity (the second INSERT was refused) while a
\* merged row and another row exist.
Wit_C14 ==
  /\ last.op = "get_or_create" /\ last.raised
  /\ \E r \in users : r.tg_user_id # NULL /\ r.bale_user_id # NULL
  /\ Cardinality(users) >= 2

\* C15: every find-or-create call completes without an error, also when
\* another call for the same unknown identity has inserted the row between
\* its SELECT and its INSERT.
Cex_C15 == last.op = "get_or_create" => ~last.raised

\* C16: a merge that writes does so in one step on the database as committed
\* at that moment, with the result merge_user_accounts gives on it alone, or
\* it fails and leaves the database as it is; identities stay unique in
\* every committed state.
C16_Step ==
  /\ NoSharedIdentity(users')
  /\ \A h \in TASKS :
       (tasks[h].pc = "merge_selected" /\ tasks'[h].pc = "merge_returned") =>
         LET m == merge_user_accounts(DB, tasks[h].user, tasks[h].chat)
         IN IF tasks'[h].raised
            THEN DB' = DB
            ELSE ~m.raised /\ DB' = m.db /\ tasks'[h].ret = m.ret
Thm_C16 == [][C16_Step]_vars

\* A merge failed and rolled back because an overlapping merge committed
\* after its SELECTs.
Wit_C16 ==
  \E h \in TASKS :
    /\ tasks[h].pc = "merge_returned" /\ tasks[h].raised /\ tasks[h].stale
    /\ \E r \in users : r.bale_user_id # NULL /\ r.tg_user_id # NULL
                        /\ (r.tg_user_id = tasks[h].user \/ r.bale_user_id = tasks[h].chat)

\* ---- C17, C18: routing
\* The handlers of a message that is not a command.
TgMessageOps == {"on_tg_dm", "on_tg_group_forward", "on_tg_channel_post"}
BaleMessageOps == {"bale_self", "bale_private", "bale_group", "bale_channel"}

\* C17: a message whose author is the bridge's own bot on its platform is
\* never forwarded, whatever the kind of its chat.
Cex_C17 ==
  (\/ last.op \in TgMessageOps /\ last.user = TG_BOT_ID
   \/ last.op \in BaleMessageOps /\ last.user = BALE_SELF_ID)
    => last.reply # "forward"

\* The pairing row routing reads for a message of handler op in chat c.
RouteLink(d, op, c) ==
  IF op = "on_tg_group_forward" THEN find_group_link_by_tg(d, c)
  ELSE IF op = "on_tg_channel_post" THEN find_channel_link_by_tg(d, c)
  ELSE IF op = "bale_group" THEN find_group_link_by_bale(d, c)
  ELSE find_channel_link_by_bale(d, c)

GroupChannelOps == {"on_tg_group_forward", "on_tg_channel_post", "bale_group", "bale_channel"}

\* C18: a message in a group or channel with no pairing row, or with a
\* pairing row whose enabled is false, is answered with no send on either
\* platform and no error, and the database stays as it is.
C18_Step ==
  (/\ last'.op \in GroupChannelOps
   /\ LET link == RouteLink(DB, last'.op, last'.chat)
      IN link = {} \/ \E l \in link : l.enabled = FALSE)
    => last'.reply = "none" /\ ~last'.raised /\ DB' = DB
Thm_C18 == [][C18_Step]_vars

\* A user's message was handled in a group whose pairing row is disabled.
Wit_C18 ==
  /\ last.op = "on_tg_group_forward" /\ last.user \in 1 .. MaxRouteUsers
  /\ last.reply = "none"
  /\ \E l \in group_links : l.tg_group_id = last.chat /\ l.enabled = FALSE

\* ---- C19, C20: the chats table
\* The handlers that redeem a /verify code.
RedeemOps == {"on_tg_verify_in_group", "bale_verify"}

\* C19: a redemption in a chat that is registered to another owner is not
\* confirmed as linked: whenever the reply is the confirmation, the chat is
\* registered to the owner of the code.
Cex_C19 ==
  (last.op \in RedeemOps /\ last.reply = "linked") =>
    \E c \in chats : /\ c.platform = last.platform /\ c.chat_id = last.chat
                     /\ c.owner_user_id = last.ret[1]

\* C20: (platform, chat id) names at most one chats row, the row has an
\* owner, and a step leaves the kind and the owner of a row as they are,
\* but for a merge that succeeds and moves the chats of the Telegram owner
\* to the surviving owner.
C20_Step ==
  /\ \A c1, c2 \in chats' :
       (c1.platform = c2.platform /\ c1.chat_id = c2.chat_id) => c1 = c2
  /\ \A c \in chats' : c.owner_user_id # NULL
  /\ \A c \in chats :
       \E c2 \in chats' :
         /\ c2.platform = c.platform /\ c2.chat_id = c.chat_id
         /\ c2.chat_type = c.chat_type
         /\ \/ c2.owner_user_id = c.owner_user_id
            \/ /\ last'.op = "on_tg_await_bale_id" /\ ~last'.raised
               /\ c.owner_user_id = last'.tg_owner_id
               /\ c2.owner_user_id = last'.bale_owner_id
Thm_C20 == [][C20_Step]_vars

\* A code of another owner, for the other kind or the same, was redeemed in
\* a chat that is registered, and the row is as it was.
Wit_C20 ==
  /\ last.op \in RedeemOps /\ last.reply = "linked"
  /\ \E c \in chats : /\ c.platform = last.platform /\ c.chat_id = last.chat
                      /\ c.owner_user_id # last.ret[1]

\* ---- C21: where chats rows come from
\* C21: a step adds a chats row only as a redemption confirmed as linked,
\* of a code that was unconsumed, was minted for the row's platform and
\* kind, is redeemed by its requester in the chat the row names, and whose
\* owner is the row's owner; the step consumes the code and adds one row.
C21_Step ==
  \A c \in chats' \ chats :
    /\ last'.op \in RedeemOps /\ last'.reply = "linked"
    /\ chats' = chats \cup {c}
    /\ c.platform = last'.platform /\ c.chat_id = last'.chat
    /\ c.chat_type = chat_type_of(c.chat_id)
    /\ \E t \in verify_tokens :
         /\ t.code = last'.code /\ ~t.consumed
         /\ t.platform = c.platform /\ t.chat_type = c.chat_type
         /\ t.platform_user_id = last'.user
         /\ t.owner_user_id = c.owner_user_id
         /\ [t EXCEPT !.consumed = TRUE] \in verify_tokens'
Thm_C21 == [][C21_Step]_vars

\* A Bale channel was registered by a redemption.
Wit_C21 ==
  /\ last.op = "bale_verify" /\ last.reply = "linked"
  /\ \E c \in chats : c.platform = "bale" /\ c.chat_type = "channel" /\ c.chat_id = last.chat

\* ---- C22: DM verify codes
\* C22: a DM code is accepted only on its target platform, in its target
\* chat, and while it is unconsumed and unexpired (now < expires_at); an
\* accepted code is consumed, so that it is accepted once; a refused
\* attempt leaves the tokens as they are.
C22_Step ==
  last'.op \in DmVerifyOps =>
    IF last'.reply = "dm_target_set"
    THEN \E t \in dm_verify_tokens :
           /\ t.code = last'.code /\ ~t.consumed
           /\ t.target_platform = last'.platform /\ t.target_chat_id = last'.chat
           /\ now < t.expires_at
           /\ [t EXCEPT !.consumed = TRUE] \in dm_verify_tokens'
    ELSE dm_verify_tokens' = dm_verify_tokens
Cex_C22 == [][C22_Step]_vars

\* ---- C23: DM routing
\* The replies of the private handlers to a command or to a wizard input.
NotRoutedReplies == {"unknown_command", "myid", "help", "not_an_integer"}

\* The owner row of the author of the last event.
SenderRow ==
  IF last.platform = "tg" THEN UserByTg(DB, last.user) ELSE UserByBale(DB, last.user)

\* The opposite-platform DM target of an owner row (NULL when not set).
OppositeTarget(r, platform) ==
  IF platform = "tg" THEN r.dm_target_bale_chat_id ELSE r.dm_target_telegram_chat_id

\* C23: a private message that is not a command is forwarded to the DM
\* target of its sender's owner when the owner has one, and is answered
\* with the setup prompt, and not forwarded, when it has none.
Cex_C23 ==
  (last.op \in {"on_tg_dm", "bale_private"} /\ last.reply \notin NotRoutedReplies) =>
    \E r \in SenderRow :
      IF OppositeTarget(r, last.platform) # NULL
      THEN last.reply = "forward" /\ last.ret = <<OppositeTarget(r, last.platform)>>
      ELSE last.reply = "not_forwarded"

\* ---- C24: command interception
\* C24: a message that begins with /verify or /verify_dm is never
\* forwarded, to a DM target or to a paired chat, on either platform and
\* in every kind of chat.
Cex_C24 ==
  (last.op \in RedeemOps \cup DmVerifyOps \/ last.cmd \in {"/verify", "/verify_dm"})
    => last.reply # "forward"

\* ---- C25: routing and the store
\* The handlers that route a message, and their replies to a message that
\* is not a command.
RouteOps == {"on_tg_dm", "bale_private"} \cup GroupChannelOps
RoutedReplies == {"forward", "not_forwarded", "none"}

\* C25: the handling of a message that is not a command, in a chat of any
\* kind on either platform, leaves every table as it is.
C25_Step ==
  (last'.op \in RouteOps /\ last'.reply \in RoutedReplies /\ last'.cmd # "/verify")
    => DB' = DB
Cex_C25 == [][C25_Step]_vars

\* ---- C26: a send that fails
\* The ids of the updates handled so far, in the order of handling.
HandledIds == [i \in 1 .. Len(tasks[BALE_LOOP].handled) |-> tasks[BALE_LOOP].handled[i][1]]

\* C26: the Bale loop handles every update once and in order, whether or
\* not the send of an earlier one failed (none is retried, none is left
\* out, the loop goes on), and handling an update whose send fails leaves
\* the database as it is.
C26_Step ==
  /\ tasks'[BALE_LOOP].pc \in {"poll", "batch"}
  /\ HandledIds' = [i \in 1 .. Len(HandledIds') |-> i]
  /\ tasks'[BALE_LOOP].offset = Len(HandledIds') + (IF HandledIds' = <<>> THEN 0 ELSE 1)
  /\ (tasks'[BALE_LOOP].pc = "batch" /\ tasks[BALE_LOOP].pc = "poll")
       => tasks'[BALE_LOOP].batch = SubSeq(tasks[BALE_LOOP].inbox, Len(HandledIds) + 1,
                                           Len(tasks[BALE_LOOP].inbox))
  /\ last'.reply = "forward_failed" => DB' = DB
Thm_C26 == [][C26_Step]_vars

\* The send of the last update of a batch failed, and an update of a later
\* batch was forwarded.
Wit_C26 ==
  LET t == tasks[BALE_LOOP]
  IN /\ Len(t.handled) = 2
     /\ t.handled[1][2] = "forward_failed" /\ t.handled[2][2] = "forward"
     /\ t.pc = "batch" /\ t.batch = <<>> /\ t.offset = 3
     /\ Len(t.inbox) = 2

\* ---- C27: failures are answered
\* C27: a refused /verify is answered "invalid" or "wrong_type", a refused
\* /verify_dm is answered "invalid", and a merge that fails is caught by its
\* handler and answered "error"; no exception leaves a handler unanswered.
C27_Step ==
  /\ (last'.op \in RedeemOps /\ (last'.ret = None \/ last'.reply # "linked"))
       => last'.reply \in {"invalid", "wrong_type"}
  /\ (last'.op \in DmVerifyOps /\ last'.ret = None) => last'.reply = "invalid"
  /\ (last'.op = "on_tg_await_bale_id" /\ last'.raised)
       => last'.reply = "error" /\ last'.user \notin DOMAIN TG_WIZ'
  /\ last'.raised => last'.reply = "error"
ConsumedRun(r) ==
  consume_verify_code(mark_consumed(DB, r.code), r.code, r.platform,
                      r.platform_user_id, now)

\* C28: a redemption of an expired code (now >= expires_at) by its requester
\* returns what the redemption of the same code, consumed, returns, is
\* answered with the same reply, and each of the two leaves its store as it
\* found it.
C28_Step ==
  \A r \in verify_tokens :
    (/\ last'.op \in RedeemOps /\ last'.code = r.code
     /\ last'.platform = r.platform /\ last'.user = r.platform_user_id
     /\ ~r.consumed /\ now >= r.expires_at)
    => /\ last'.ret = ConsumedRun(r).ret
       /\ last'.reply = verify_reply(ConsumedRun(r).ret, r.chat_type)
       /\ DB' = DB
       /\ ConsumedRun(r).db = mark_consumed(DB, r.code)
Cex_C28 == [][C28_Step]_vars

\* ---- C29: no uncommitted write at an adapter call
\* C29: at every adapter call of a handler its connection has no
\* uncommitted write: every write before the call was committed or rolled
\* back.
C29_Step == "dirty" \notin tx_at_sends("none", HandlerStmts(DB, last'))
Thm_C29 == [][C29_Step]_vars
\* A merge of two owner rows raised after its first writes, and the
\* handler answered.
Wit_C29 ==
  /\ last.op = "on_tg_await_bale_id" /\ last.raised /\ last.reply = "error"
  /\ last.tg_owner_id # NULL /\ last.bale_owner_id # NULL
  /\ last.tg_owner_id # last.bale_owner_id

\* ---- C30: the life of a token
\* The row of token r after the step: same code, platform, kind, requester
\* and expiry; a set consumed flag stays set; the flag is set only while the
\* token is Active (now < expires_at).
VerifyTokenKept(r, r2) ==
  /\ r2.code = r.code /\ r2.platform = r.platform /\ r2.chat_type = r.chat_type
  /\ r2.platform_user_id = r.platform_user_id /\ r2.expires_at = r.expires_at
  /\ r.consumed => r2.consumed
  /\ (~r.consumed /\ r2.consumed) => now < r.expires_at

DmTokenKept(r, r2) ==
  /\ r2.code = r.code /\ r2.target_platform = r.target_platform
  /\ r2.target_chat_id = r.target_chat_id /\ r2.expires_at = r.expires_at
  /\ r.consumed => r2.consumed
  /\ (~r.consumed /\ r2.consumed) => now < r.expires_at

\* C30: no step deletes a token, changes its code, platform, kind,
\* requester or target, or expiry, clears its consumed flag, or sets the
\* flag of a token that is Expired.
C30_Step ==
  /\ \A r \in verify_tokens : \E r2 \in verify_tokens' : VerifyTokenKept(r, r2)
  /\ \A r \in dm_verify_tokens : \E r2 \in dm_verify_tokens' : DmTokenKept(r, r2)
Cex_C30 == [][C30_Step]_vars

\* ---- C31: no token stays redeemable forever
\* No attempt to redeem the verify token r succeeds now: the attempt of its
\* requester on its platform, the only one the lookup finds, returns None.
VerifyRejected(r) ==
  consume_verify_code(DB, r.code, r.platform, r.platform_user_id, now).ret = None

\* No attempt to redeem the DM token r succeeds now, its target chat included.
DmRejected(r) ==
  consume_dm_verify_code(DB, r.code, r.target_platform, r.target_chat_id, now).ret = NULL

AllRejected(c) ==
  /\ \A r \in verify_tokens : r.code = c => VerifyRejected(r)
  /\ \A r \in dm_verify_tokens : r.code = c => DmRejected(r)

\* C31: under a clock that keeps advancing every issued verify token and DM
\* verify token reaches a state from which every redemption attempt is
\* rejected, and stays rejected.
Thm_C31 ==
  \A c \in 1 .. (MaxCodes + MaxDmCodes) :
    (\E r \in verify_tokens \cup dm_verify_tokens : r.code = c) ~> [](AllRejected(c))
\* An unconsumed token past its expiry was sent and refused.
Wit_C31 ==
  /\ last.op \in RedeemOps /\ last.reply = "invalid"
  /\ \E r \in verify_tokens : r.code = last.code /\ ~r.consumed /\ r.expires_at < now

\* ---- C32: a Telegram channel code redeemed in a channel
\* C32: when the requester of a Telegram channel code that is unconsumed
\* and unexpired has posted /verify with it in a Telegram channel, the
\* channel is registered.
Cex_C32 ==
  (/\ last.op = "on_tg_channel_post" /\ last.cmd = "/verify"
   /\ \E r \in verify_tokens :
        /\ r.platform = "tg" /\ r.chat_type = "channel"
        /\ r.platform_user_id = last.user /\ ~r.consumed /\ now < r.expires_at)
  => \E ch \in chats :
       ch.platform = "tg" /\ ch.chat_type = "channel" /\ ch.chat_id = last.chat

\* ---- C33: a Bale update is handled at most once
\* C33: offset never decreases; when an update is handled, offset is past
\* it; no update is handled twice, whether its handling raised or the
\* connection was left and entered again.
C33_Step ==
  /\ tasks'[BALE_LOOP].offset >= tasks[BALE_LOOP].offset
  /\ \A i \in 1 .. Len(HandledIds') : tasks'[BALE_LOOP].offset > HandledIds'[i]
  /\ \A i, j \in 1 .. Len(HandledIds') : HandledIds'[i] = HandledIds'[j] => i = j
Thm_C33 == [][C33_Step]_vars
\* The handling of an update raised, the connection was re-established, and
\* the loop went on to a later update.
Wit_C33 ==
  LET t == tasks[BALE_LOOP]
  IN /\ t.reconnects > 0 /\ t.pc = "batch"
     /\ Len(t.handled) = 2 /\ t.handled[1][2] = "raised" /\ t.handled[2][2] = "forward"
     /\ t.batch = <<>>

\* ---- C34: one forwarding call for a message
\* C34: a message that is forwarded is forwarded with one call, to one chat.
Cex_C34 == last.reply = "forward" => Len(last.ret) <= 1

\* ---- C35: the wizard maps are advisory
\* C35: losing the wizard maps changes no row; a pairing callback that
\* finds no wizard entry asks for the first step again and writes no chat
\* and no pairing (the owner of the caller is found or created, as by every
\* callback);
\* and every pairing row a step inserts, whatever chat id the wizard
\* remembered, names two chats that the store holds as chats of the caller's
\* owner and of the pairing's kind.
C35_Step ==
  /\ last'.op = "restart" => DB' = DB
  /\ (last'.op \in PairOps /\ last'.user \notin DOMAIN BALE_WIZ)
       => /\ last'.reply = "select_tg_first"
          /\ group_links' = group_links /\ channel_links' = channel_links
          /\ chats' = chats
  /\ \A l \in group_links' \ group_links :
       /\ Registered(l.owner_user_id, "tg", "group", l.tg_group_id)
       /\ Registered(l.owner_user_id, "bale", "group", l.bale_group_id)
  /\ \A l \in channel_links' \ channel_links :
       /\ Registered(l.owner_user_id, "tg", "channel", l.tg_channel_id)
       /\ Registered(l.owner_user_id, "bale", "channel", l.bale_channel_id)
DmRedeemed(o, platform, c) ==
  /\ last'.op = (IF platform = "tg" THEN "on_tg_verify_dm" ELSE "bale_verify_dm")
  /\ last'.reply = "dm_target_set" /\ last'.chat = c
  /\ \E t \in dm_verify_tokens :
       /\ t.code = last'.code /\ t.owner_user_id = o
       /\ t.target_platform = platform /\ t.target_chat_id = c /\ ~t.consumed

\* The DM targets of owner o before the step (NULL when o has no row).
TargetBefore(o, platform) ==
  IF user_row(DB, o) = {} THEN NULL
  ELSE OppositeTarget(CHOOSE r \in user_row(DB, o) : TRUE,
                      IF platform = "tg" THEN "bale" ELSE "tg")

\* C36: a step that gives an owner a new DM target c on a platform is the
\* redemption, in chat c of that platform, of a DM token of that owner
\* bound to c.
C36_Step ==
  \A r \in users' :
    /\ (r.dm_target_telegram_chat_id # NULL
        /\ r.dm_target_telegram_chat_id # TargetBefore(r.id, "tg"))
         => DmRedeemed(r.id, "tg", r.dm_target_telegram_chat_id)
    /\ (r.dm_target_bale_chat_id # NULL
        /\ r.dm_target_bale_chat_id # TargetBefore(r.id, "bale"))
         => DmRedeemed(r.id, "bale", r.dm_target_bale_chat_id)
Cex_C36 == [][C36_Step]_vars

\* ---- C37: a Telegram user cannot take a Bale identity
\* C37: a step of a Telegram handler does not make a Bale identity that no
\* owner row held before (its user has done nothing) resolve to the owner of
\* the Telegram user who made the step.
C37_Step ==
  \A b \in BALE_USERS :
    (last'.platform = "tg" /\ UserByBale(DB, b) = {})
      => \A r \in UserByBale(DB', b) : r.tg_user_id # last'.user
Cex_C37 == [][C37_Step]_vars

\* ---- C38: a merge replaces no identity
\* C38: after a call of merge_user_accounts every owner row that is still
\* there holds the Telegram identity and the Bale identity it held before,
\* where it held one.
C38_Step ==
  MergeRan(last') =>
    \A o \in users : \A o2 \in users' :
      o2.id = o.id =>
        /\ o.tg_user_id # NULL => o2.tg_user_id = o.tg_user_id
        /\ o.bale_user_id # NULL => o2.bale_user_id = o.bale_user_id
Cex_C38 == [][C38_Step]_vars

\* ---- C39: routing is symmetric
\* C39: a chat is in at most one pairing of its kind, and the chat that the
\* messages of a chat are forwarded to forwards its messages back to it.
Cex_C39 ==
  /\ \A l1, l2 \in group_links :
       (l1.tg_group_id = l2.tg_group_id \/ l1.bale_group_id = l2.bale_group_id) => l1 = l2
  /\ \A l1, l2 \in channel_links :
       (l1.tg_channel_id = l2.tg_channel_id \/ l1.bale_channel_id = l2.bale_channel_id)
         => l1 = l2
  /\ \A c \in PAIR_GROUPS :
       /\ \A l \in find_group_link_by_tg(DB, c) :
            \E k \in find_group_link_by_bale(DB, l.bale_group_id) : k.tg_group_id = c
       /\ \A l \in find_group_link_by_bale(DB, c) :
            \E k \in find_group_link_by_tg(DB, l.tg_group_id) : k.bale_group_id = c

====
